---- MODULE Spec2Model ----
(***************************************************************************)
(* QuizzlerV2: the survey reward contract that settles create-survey,      *)
(* cancel-survey and pay-rewards messages delivered through the Axelar     *)
(* gateway (src/unnamed/part_001).                                         *)
(*                                                                         *)
(* One action of the model is one transaction on the contract.  A          *)
(* transaction is computed on a working copy of the storage (a "world"     *)
(* record) by operators that follow the Solidity statements in order; a    *)
(* revert discards the working copy, a normal return commits it.           *)
(***************************************************************************)
EXTENDS Integers, Sequences, FiniteSets, TLC

\* ------------------------------------------------------------------ bounds
NumTokens == 3          \* proof tokens (nonces) the off-chain signer hands out
MaxLimit == 2           \* largest participantsLimit in a create payload
MaxTime == 1            \* block.timestamp and expiries range over 0..MaxTime
MaxBatch == 2           \* longest surveyIds / participants array of a payload
MaxFlows == 2           \* createAndMonitorLCA invocations
MaxUpgrades == 1        \* restarts of the orchestration contract
MaxGive == 2            \* largest amount in the give of an offer's proposal
MaxMessages == 2        \* longest messages array of a sendTransactions offer
MaxBalance == 3         \* largest balance of the local account

\* --------------------------------------------------------- program constants
CREATE_SURVEY_MSG_ID == 0
CANCEL_SURVEY_MSG_ID == 1
PAY_REWARDS_MSG_ID == 2

\* AGORIC_CHAIN_HASH and SENDER_HASH are hashes of these strings; comparing
\* the hashes is comparing the strings.
AGORIC_CHAIN == "agoric"
SENDER == "agoric1sender"

\* ------------------------------------------------------------------- values
ZeroAddress == "0x0"
Owner == "owner"                \* the account that called initialize()
JunkAddress == "junk"           \* what ECDSA recovery yields for a signature over another digest
Managed == {"mgr"}              \* addresses whose manager flag the owner sets and clears
Relayers == {"relay"}           \* msg.sender of a create delivery
Callers == {"relay", "mgr"}     \* msg.sender of a cancel delivery
Signers == {"mgr", "user"}      \* holders of signing keys
Addresses == {ZeroAddress, Owner, JunkAddress, "mgr", "relay", "user", "A", "B"}
Participants == {"A", "B"}
SurveyIds == {"S1", "S2"}
Tokens == 1..NumTokens
Times == 0..MaxTime
RewardToken == "aUSDC"          \* gatewayWithToken().tokenAddresses(tokenSymbol)
GasStation == "gasStation"
NullHash == "0x00"
SurveyHashes == {"h1"}
Owners == {"user"}              \* the _owner field of a create payload
Errors ==
    {"none", "WrongSource", "WrongSender", "NoTokens", "WrongMsgId",
     "InvalidSigner", "SurveyExists", "InvalidTrxValue", "InvalidRewardAmount",
     "SurveyDoesNotExist", "SurveyAlreadyCanceled", "OnlyCreatorOrManager",
     "AllParticipantsRewarded", "ArrayLengthMismatch", "UserAlreadyRewarded",
     "InvalidMessageHash", "TokenAlreadyUsed", "ProofExpired", "ZeroAddress",
     "TransferFailed"}

\* ------------------------------------------------------------------- state
VARIABLES
    managers,               \* mapping(address => bool) managers
    surveys,                \* mapping(string => SurveyStruct) surveys
    surveysUsersRewarded,   \* mapping(string => mapping(address => bool))
    proofTokens,            \* mapping(bytes32 => bool) proofTokens
    now,                    \* block.timestamp
    last,                   \* the last transaction: entry point, error, events, transfers
    refunds,                \* per survey: refund transfers made so far (token ledger)
    rewardsPaid,            \* per (survey, participant): reward transfers made so far
    finished,               \* per survey: SurveyFinished events in the log so far
    paidOut,                \* per survey: amount sent out as rewards and refund so far
    remoteChannel,          \* per chain: the zone's RemoteChannel entry and its flow
    incarnation,            \* how many times the orchestration contract was restarted
    lca,                    \* the createAndMonitorLCA invocations and their position
    accountKits,            \* the account kits made so far, with the state they hold
    localBalance,           \* what the local account of an account kit holds
    offer                   \* the offer the kit's continuing-transaction handler is running

vars == <<managers, surveys, surveysUsersRewarded, proofTokens, now, last,
          refunds, rewardsPaid, finished, paidOut, remoteChannel, incarnation, lca,
          accountKits, localBalance, offer>>

\* The state of the EVM contract and the state of the orchestration contract.
quizzler == <<managers, surveys, surveysUsersRewarded, proofTokens, now, last,
              refunds, rewardsPaid, finished, paidOut>>

routing == <<remoteChannel, incarnation, lca, accountKits>>

\* The state of one account kit: its local account and the offer in progress.
kit == <<localBalance, offer>>

ledger == <<surveys, surveysUsersRewarded>>

\* The zero value a Solidity mapping returns for a key never written.
ZeroSurvey ==
    [surveyCreator |-> ZeroAddress, participantsLimit |-> 0, rewardAmount |-> 0,
     participantsRewarded |-> 0, surveyHash |-> NullHash, rewardToken |-> ZeroAddress,
     isCanceled |-> FALSE]

\* Events and token transfers, as uniform records.
Event(name, sid, who, n) == [ev |-> name, surveyId |-> sid, who |-> who, n |-> n]
Transfer(why, sid, tok, to, amt) ==
    [why |-> why, surveyId |-> sid, token |-> tok, to |-> to, amount |-> amt]

\* The storage a transaction works on, with the events and transfers it has made.
World ==
    [managers |-> managers, surveys |-> surveys,
     surveysUsersRewarded |-> surveysUsersRewarded, proofTokens |-> proofTokens,
     events |-> <<>>, xfers |-> <<>>]

Ok(w) == [err |-> "none", w |-> w]
Revert(w, e) == [err |-> e, w |-> w]

\* ------------------------------------------------------------ proof digests
\* keccak256(abi.encodePacked(...)) is modelled as the tuple of the packed
\* fields: equal digests are equal field tuples.  getChainID() is the same in
\* every digest of one deployment and is left out.
Digest(shape, token, tte, owner, sid, limit, reward, hash, gas, n1, n2) ==
    [shape |-> shape, token |-> token, tte |-> tte, owner |-> owner, surveyId |-> sid,
     limit |-> limit, reward |-> reward, hash |-> hash, gas |-> gas, n1 |-> n1, n2 |-> n2]

\* bytes32(0)
NullDigest == Digest("null", 0, 0, ZeroAddress, "", 0, 0, NullHash, 0, 0, 0)

CreateHash(token, tte, owner, sid, limit, reward, hash, gas) ==
    Digest("create", token, tte, owner, sid, limit, reward, hash, gas, 0, 0)

CancelHash(token, tte, sid) ==
    Digest("cancel", token, tte, ZeroAddress, sid, 0, 0, NullHash, 0, 0, 0)

RewardHash_BindsContents(token, tte, ids, parts) ==
    Digest("reward", token, tte, ZeroAddress, "", 0, 0, NullHash, 0, ids, parts)

RewardHash(token, tte, ids, parts) ==
    Digest("reward", token, tte, ZeroAddress, "", 0, 0, NullHash, 0, Len(ids), Len(parts))

createProof_IgnoresToken(pt, token, tte, owner, sid, limit, reward, hash, gas) ==
    CreateHash(token, tte, owner, sid, limit, reward, hash, gas)

createProof(pt, token, tte, owner, sid, limit, reward, hash, gas) ==
    IF pt[token] THEN NullDigest
    ELSE CreateHash(token, tte, owner, sid, limit, reward, hash, gas)

cancelProof(pt, token, tte, sid) ==
    IF pt[token] THEN NullDigest ELSE CancelHash(token, tte, sid)

rewardProof(pt, token, tte, ids, parts) ==
    IF pt[token] THEN NullDigest ELSE RewardHash(token, tte, ids, parts)

\* A signature is the pair (key holder, digest signed); the malformed
\* signature recovers to no identity.
Sig(by, over) == [by |-> by, over |-> over]
BadSig == Sig(ZeroAddress, NullDigest)

getSigner(message, signature) ==
    IF signature.by = ZeroAddress THEN ZeroAddress
    ELSE IF signature.over = message THEN signature.by
    ELSE JunkAddress

\* ------------------------------------------------------- the guards, by line
IsManager_AnySigner(w, a) == a # ZeroAddress

IsManager(w, a) == w.managers[a]

TokenUsed_Unchecked(w, token) == FALSE

TokenUsed(w, token) == w.proofTokens[token]

IsExpired_AtDeadline(t, tte) == t >= tte

IsExpired(t, tte) == t > tte

TrustedChain(chain) == chain = AGORIC_CHAIN

TrustedSender_Unchecked(addr) == TRUE

TrustedSender(addr) == addr = SENDER

TokensAttached_Unchecked(amount) == FALSE

TokensAttached(amount) == amount > 0

SurveyExists_Unchecked(w, sid) == FALSE

SurveyExists(w, sid) == w.surveys[sid].surveyCreator # ZeroAddress

FundingMismatch_NoGas(amount, amountToSurvey, gas) == amount # amountToSurvey

FundingMismatch(amount, amountToSurvey, gas) == amount # amountToSurvey + gas

AlreadyCanceled_Unchecked(w, sid) == FALSE

\* the check of a cancel
AlreadyCanceled(w, sid) == w.surveys[sid].isCanceled

PayToCanceled_Unchecked(w, sid) == FALSE

\* the check of a payment
PayToCanceled(w, sid) == w.surveys[sid].isCanceled

NotCreatorNorManager(w, sid, sender) ==
    sender # w.surveys[sid].surveyCreator /\ ~w.managers[sender]

NothingToRefund_Unchecked(w, sid) == FALSE

\* the check of a cancel
NothingToRefund(w, sid) ==
    w.surveys[sid].participantsLimit <= w.surveys[sid].participantsRewarded

LimitReached_OffByOne(w, sid) ==
    w.surveys[sid].participantsRewarded > w.surveys[sid].participantsLimit

\* the check of a payment
LimitReached(w, sid) ==
    w.surveys[sid].participantsRewarded >= w.surveys[sid].participantsLimit

AlreadyRewarded_Unchecked(w, sid, p) == FALSE

AlreadyRewarded(w, sid, p) == w.surveysUsersRewarded[sid][p]

JustFinished_BeforeIncrement(w, sid) ==
    w.surveys[sid].participantsRewarded + 1 = w.surveys[sid].participantsLimit

JustFinished(w, sid) ==
    w.surveys[sid].participantsRewarded = w.surveys[sid].participantsLimit

LengthMismatch_ShorterIdsOnly(ids, parts) == Len(ids) < Len(parts)

LengthMismatch(ids, parts) == Len(ids) # Len(parts)

getSurveyAmountToFund(w, sid) ==
    w.surveys[sid].participantsLimit * w.surveys[sid].rewardAmount

getSurveysRewardsAmountPayded_Nothing(w, sid) == 0

getSurveysRewardsAmountPayded(w, sid) ==
    w.surveys[sid].participantsRewarded * w.surveys[sid].rewardAmount

\* --------------------------------------------------------------- statements
Emit(w, e) == [w EXCEPT !.events = Append(@, e)]

MarkTokenUsed(w, token) == [w EXCEPT !.proofTokens[token] = TRUE]

\* IERC20(token).transfer(to, amount): an external call.  failAt names the
\* transfer of the transaction (1, 2, ...) that the token contract reverts;
\* 0 is none.
DoTransfer(w, x, failAt) ==
    IF Len(w.xfers) + 1 = failAt THEN Revert(w, "TransferFailed")
    ELSE Ok([w EXCEPT !.xfers = Append(@, x)])

preAuthValidations(w, message, token, tte, signature, t) ==
    IF message = NullDigest
    THEN [err |-> "InvalidMessageHash", w |-> w, signer |-> ZeroAddress]
    ELSE IF TokenUsed(w, token)
    THEN [err |-> "TokenAlreadyUsed", w |-> w, signer |-> ZeroAddress]
    ELSE IF IsExpired(t, tte)
    THEN [err |-> "ProofExpired", w |-> w, signer |-> ZeroAddress]
    ELSE LET signer == getSigner(message, signature)
         IN  IF signer = ZeroAddress
             THEN [err |-> "ZeroAddress", w |-> w, signer |-> ZeroAddress]
             ELSE [err |-> "none", w |-> MarkTokenUsed(w, token), signer |-> signer]

\* ----------------------------------------------------------------- handlers
\* An envelope e is one gateway delivery: the entry point (e.path), msg.sender
\* (e.caller), the authenticated origin, the attached amount, and the decoded
\* payload fields.  t is block.timestamp.
handleCreateSurvey(w, e, t) ==
    LET message == createProof(w.proofTokens, e.token, e.tte, e.owner, e.surveyId,
                               e.limit, e.reward, e.hash, e.gas)
        pa == preAuthValidations(w, message, e.token, e.tte, e.sig, t)
        w1 == pa.w
        w2 == [w1 EXCEPT !.surveys[e.surveyId] =
                  [surveyCreator |-> e.caller, participantsLimit |-> e.limit,
                   rewardAmount |-> e.reward, participantsRewarded |-> 0,
                   surveyHash |-> e.hash, rewardToken |-> e.tokenAddress,
                   isCanceled |-> FALSE]]
        amountToSurvey == e.limit * e.reward
        tr == DoTransfer(w2, Transfer("gas", e.surveyId, e.tokenAddress, GasStation, e.gas),
                         e.failAt)
    IN  IF pa.err # "none" THEN Revert(w, pa.err)
        ELSE IF ~IsManager(w1, pa.signer) THEN Revert(w1, "InvalidSigner")
        ELSE IF SurveyExists(w1, e.surveyId) THEN Revert(w1, "SurveyExists")
        ELSE IF FundingMismatch(e.amount, amountToSurvey, e.gas)
        THEN Revert(w2, "InvalidTrxValue")
        ELSE IF amountToSurvey # getSurveyAmountToFund(w2, e.surveyId)
        THEN Revert(w2, "InvalidRewardAmount")
        ELSE IF tr.err # "none" THEN tr
        ELSE Ok(Emit(tr.w, Event("SurveyCreated", e.surveyId, e.caller, e.limit)))

handleCancelSurvey(w, e, t) ==
    LET sid == e.surveyId
        message == cancelProof(w.proofTokens, e.token, e.tte, sid)
        pa == preAuthValidations(w, message, e.token, e.tte, e.sig, t)
        w1 == pa.w
        returnAmount == getSurveyAmountToFund(w1, sid) - getSurveysRewardsAmountPayded(w1, sid)
        tr == DoTransfer(w1, Transfer("refund", sid, w1.surveys[sid].rewardToken,
                                      w1.surveys[sid].surveyCreator, returnAmount),
                         e.failAt)
        w2 == [tr.w EXCEPT !.surveys[sid].isCanceled = TRUE]
    IN  IF ~SurveyExists(w, sid) THEN Revert(w, "SurveyDoesNotExist")
        ELSE IF AlreadyCanceled(w, sid) THEN Revert(w, "SurveyAlreadyCanceled")
        ELSE IF NotCreatorNorManager(w, sid, e.caller) THEN Revert(w, "OnlyCreatorOrManager")
        ELSE IF NothingToRefund(w, sid) THEN Revert(w, "AllParticipantsRewarded")
        ELSE IF pa.err # "none" THEN Revert(w, pa.err)
        ELSE IF ~IsManager(w1, pa.signer) THEN Revert(w1, "InvalidSigner")
        ELSE IF tr.err # "none" THEN tr
        ELSE Ok(Emit(w2, Event("SurveyCanceled", sid, ZeroAddress, 0)))

\* One iteration of the payment loop, for item j of the batch.
PayItem(w, e, j) ==
    LET sid == e.ids[j]
        p == e.parts[j]
        tr == DoTransfer(w, Transfer("reward", sid, w.surveys[sid].rewardToken, p,
                                     w.surveys[sid].rewardAmount), e.failAt)
        w1 == [tr.w EXCEPT !.surveys[sid].participantsRewarded = @ + 1,
                           !.surveysUsersRewarded[sid][p] = TRUE]
        w2 == Emit(w1, Event("RewardPaid", sid, p, w1.surveys[sid].rewardAmount))
    IN  IF PayToCanceled(w, sid) THEN Revert(w, "SurveyAlreadyCanceled")
        ELSE IF LimitReached(w, sid) THEN Revert(w, "AllParticipantsRewarded")
        ELSE IF AlreadyRewarded(w, sid, p) THEN Revert(w, "UserAlreadyRewarded")
        ELSE IF tr.err # "none" THEN tr
        ELSE IF JustFinished(w2, sid)
        THEN Ok(Emit(w2, Event("SurveyFinished", sid, ZeroAddress, 0)))
        ELSE Ok(w2)

RECURSIVE PayLoop(_, _, _)
PayLoop(w, e, j) ==
    IF j > Len(e.parts) THEN Ok(w)
    ELSE LET r == PayItem(w, e, j)
         IN  IF r.err # "none" THEN r ELSE PayLoop(r.w, e, j + 1)

handleRewardPayment(w, e, t) ==
    LET message == rewardProof(w.proofTokens, e.token, e.tte, e.ids, e.parts)
        pa == preAuthValidations(w, message, e.token, e.tte, e.sig, t)
        w1 == pa.w
    IN  IF LengthMismatch(e.ids, e.parts) THEN Revert(w, "ArrayLengthMismatch")
        ELSE IF pa.err # "none" THEN Revert(w, pa.err)
        ELSE IF ~IsManager(w1, pa.signer) THEN Revert(w1, "InvalidSigner")
        ELSE PayLoop(w1, e, 1)

Completed_Silent(r, e) == r

Completed(r, e) ==
    IF r.err # "none" THEN r
    ELSE Ok(Emit(r.w, Event("ExecuteEventCompleted", "", ZeroAddress, e.msgId)))

executeWithToken_AnyKind(w, e, t) ==
    IF ~TrustedChain(e.sourceChain) THEN Revert(w, "WrongSource")
    ELSE IF ~TrustedSender(e.sourceAddress) THEN Revert(w, "WrongSender")
    ELSE IF TokensAttached(e.amount) THEN Revert(w, "NoTokens")
    ELSE Completed(handleCreateSurvey(w, e, t), e)

executeWithToken(w, e, t) ==
    IF ~TrustedChain(e.sourceChain) THEN Revert(w, "WrongSource")
    ELSE IF ~TrustedSender(e.sourceAddress) THEN Revert(w, "WrongSender")
    ELSE IF TokensAttached(e.amount) THEN Revert(w, "NoTokens")
    ELSE IF e.msgId # CREATE_SURVEY_MSG_ID THEN Revert(w, "WrongMsgId")
    ELSE Completed(handleCreateSurvey(w, e, t), e)

execute(w, e, t) ==
    IF ~TrustedChain(e.sourceChain) THEN Revert(w, "WrongSource")
    ELSE IF ~TrustedSender(e.sourceAddress) THEN Revert(w, "WrongSender")
    ELSE IF e.msgId = CANCEL_SURVEY_MSG_ID THEN Completed(handleCancelSurvey(w, e, t), e)
    ELSE IF e.msgId = PAY_REWARDS_MSG_ID THEN Completed(handleRewardPayment(w, e, t), e)
    ELSE Revert(w, "WrongMsgId")

\* The gateway's two entry points.
Run(w, e, t) ==
    IF e.path = "executeWithToken" THEN executeWithToken(w, e, t) ELSE execute(w, e, t)

\* A transaction that reverts leaves the storage, the event log and the token
\* ledger as they were before it; one that returns commits its working copy.
Settle_CommitsAll(pre, r) == r.w

Settle_KeepsTokens(pre, r) ==
    IF r.err = "none" THEN r.w ELSE [pre EXCEPT !.proofTokens = r.w.proofTokens]

Settle(pre, r) == IF r.err = "none" THEN r.w ELSE pre

\* ---------------------------------------------------------------- envelopes
\* The deliveries the model draws from.  A payload field the code never reads
\* on the path an envelope takes keeps the value it has in Blank.
Blank ==
    [path |-> "execute", caller |-> "relay", sourceChain |-> AGORIC_CHAIN,
     sourceAddress |-> SENDER, amount |-> 0, tokenAddress |-> RewardToken,
     msgId |-> CANCEL_SURVEY_MSG_ID, sig |-> BadSig, token |-> 1, tte |-> MaxTime,
     owner |-> "user", surveyId |-> "S1", limit |-> 0, reward |-> 0, hash |-> "h1",
     gas |-> 0, ids |-> <<>>, parts |-> <<>>, failAt |-> 0]

\* The digest the off-chain signer computes for an envelope's payload.
ProperDigest(e) ==
    IF e.msgId = CREATE_SURVEY_MSG_ID
    THEN CreateHash(e.token, e.tte, e.owner, e.surveyId, e.limit, e.reward, e.hash, e.gas)
    ELSE IF e.msgId = CANCEL_SURVEY_MSG_ID THEN CancelHash(e.token, e.tte, e.surveyId)
    ELSE IF e.msgId = PAY_REWARDS_MSG_ID THEN RewardHash(e.token, e.tte, e.ids, e.parts)
    ELSE NullDigest

\* The digest of a different instruction of the same kind: another owner,
\* another survey, a batch one item longer.
OtherDigest(e) ==
    IF e.msgId = CREATE_SURVEY_MSG_ID
    THEN CreateHash(e.token, e.tte, "relay", e.surveyId, e.limit, e.reward, e.hash, e.gas)
    ELSE IF e.msgId = CANCEL_SURVEY_MSG_ID THEN CancelHash(e.token, e.tte, "S0")
    ELSE RewardHash(e.token, e.tte, Append(e.ids, "S1"), Append(e.parts, "A"))

\* How the envelope is signed: by the key "mgr" or "user" over its own digest,
\* by "mgr" over another digest, or with a malformed signature.
SigModes == {"mgr", "user", "other", "malformed"}

Signed(e, mode) ==
    [e EXCEPT !.sig = IF mode = "mgr" THEN Sig("mgr", ProperDigest(e))
                      ELSE IF mode = "user" THEN Sig("user", ProperDigest(e))
                      ELSE IF mode = "other" THEN Sig("mgr", OtherDigest(e))
                      ELSE BadSig]

\* Expiry, signature and failing transfer of an envelope: every expiry with a
\* good signature, every signature with the latest expiry, and every transfer
\* of the transaction failing with a good proof.
ProofModes(maxXfers) ==
    {[tte |-> x, mode |-> "mgr", failAt |-> 0] : x \in Times}
    \cup {[tte |-> MaxTime, mode |-> m, failAt |-> 0] : m \in SigModes \ {"mgr"}}
    \cup {[tte |-> MaxTime, mode |-> "mgr", failAt |-> k] : k \in 1..maxXfers}

WithProof(e, k, pm) ==
    Signed([e EXCEPT !.token = k, !.tte = pm.tte, !.failAt = pm.failAt], pm.mode)

\* (limit, reward, gas) of create payloads: the ones whose funding is zero,
\* and ones that ask for funding (a gas amount, the rewards of two participants).
FreeFundings == {[limit |-> l, reward |-> 0, gas |-> 0] : l \in 0..MaxLimit}

PaidFundings ==
    {[limit |-> 1, reward |-> 0, gas |-> 1], [limit |-> 2, reward |-> 10, gas |-> 0]}

Fundings == FreeFundings \cup PaidFundings

Required(f) == f.limit * f.reward + f.gas

CreateOf(c, s, f, amount) ==
    [Blank EXCEPT !.path = "executeWithToken", !.msgId = CREATE_SURVEY_MSG_ID,
                  !.caller = c, !.surveyId = s, !.limit = f.limit, !.reward = f.reward,
                  !.gas = f.gas, !.amount = amount]

GoodProofs == {[tte |-> x, mode |-> "mgr", failAt |-> 0] : x \in Times}

\* Creates with nothing attached: every proof mode for the payloads that ask
\* for no funding, a good proof for the ones that ask for some.
CreateEnvelopes ==
    {WithProof(CreateOf(c, s, f, 0), k, pm) :
        c \in Relayers, s \in SurveyIds, f \in FreeFundings, k \in Tokens, pm \in ProofModes(1)}
    \cup
    {WithProof(CreateOf(c, s, f, 0), k, pm) :
        c \in Relayers, s \in SurveyIds, f \in PaidFundings, k \in Tokens, pm \in GoodProofs}

\* Creates with the funding attached that the payload asks for, properly signed.
FundedCreateEnvelopes ==
    {WithProof(CreateOf("relay", s, f, Required(f)), k,
               [tte |-> MaxTime, mode |-> "mgr", failAt |-> 0]) :
        s \in SurveyIds, f \in PaidFundings, k \in Tokens}

CancelEnvelopes ==
    {WithProof([Blank EXCEPT !.msgId = CANCEL_SURVEY_MSG_ID, !.caller = c, !.surveyId = s],
               k, pm) :
        c \in Callers, s \in SurveyIds, k \in Tokens, pm \in ProofModes(1)}

SeqsUpTo(S, n) == UNION {[1..m -> S] : m \in 0..n}

Items == SurveyIds \X Participants

ItemList == <<<<"S1", "A">>, <<"S1", "B">>, <<"S2", "A">>, <<"S2", "B">>>>

\* Batches whose two arrays have the same length; the items of a batch are
\* listed in the order of ItemList, repeats included.
Batches ==
    {[ids |-> [j \in DOMAIN b |-> ItemList[b[j]][1]],
      parts |-> [j \in DOMAIN b |-> ItemList[b[j]][2]]] :
        b \in {c \in SeqsUpTo(DOMAIN ItemList, MaxBatch) :
                  \A i, j \in DOMAIN c : i < j => c[i] <= c[j]}}

\* Batches whose arrays differ in length (their contents are never read).
Mismatched ==
    {[ids |-> [j \in 1..n |-> "S1"], parts |-> [j \in 1..m |-> "A"]] :
        <<n, m>> \in {x \in (0..MaxBatch) \X (0..MaxBatch) : x[1] # x[2]}}

PayEnvelopes ==
    {WithProof([Blank EXCEPT !.msgId = PAY_REWARDS_MSG_ID, !.ids = b.ids, !.parts = b.parts],
               k, pm) :
        b \in Batches, k \in Tokens, pm \in ProofModes(MaxBatch)}
    \cup
    {WithProof([Blank EXCEPT !.msgId = PAY_REWARDS_MSG_ID, !.ids = b.ids, !.parts = b.parts],
               k, pm) :
        b \in Mismatched, k \in Tokens, pm \in ProofModes(0)}

\* Properly signed envelopes of every kind on either entry point, for the
\* checks that come before the payload is handled.
Samples ==
    {WithProof([Blank EXCEPT !.path = p, !.msgId = m, !.ids = <<"S1">>, !.parts = <<"A">>],
               k, [tte |-> MaxTime, mode |-> "mgr", failAt |-> 0]) :
        p \in {"execute", "executeWithToken"}, m \in 0..3, k \in Tokens}

Origins ==
    {<<"ethereum", SENDER>>, <<AGORIC_CHAIN, "agoric1other">>, <<"ethereum", "agoric1other">>}

MisroutedEnvelopes ==
    {[e EXCEPT !.sourceChain = o[1], !.sourceAddress = o[2]] : e \in Samples, o \in Origins}

WrongKindEnvelopes ==
    {e \in Samples : \/ e.path = "execute" /\ e.msgId \notin {CANCEL_SURVEY_MSG_ID, PAY_REWARDS_MSG_ID}
                     \/ e.path = "executeWithToken" /\ e.msgId # CREATE_SURVEY_MSG_ID}

\* Payloads of every kind on the token-bearing path with an amount attached.
AttachedEnvelopes ==
    {[e EXCEPT !.amount = 1] : e \in {x \in Samples : x.path = "executeWithToken"}}

Envelopes ==
    CreateEnvelopes \cup FundedCreateEnvelopes \cup CancelEnvelopes \cup PayEnvelopes
    \cup MisroutedEnvelopes \cup WrongKindEnvelopes \cup AttachedEnvelopes

\* ------------------------------------------------------------------ routes
\* The orchestration contract on Agoric: the route to each destination chain
\* (makeRemoteChannel) and the account kits that hold the routes.
Chains == {"Axelar", "Osmosis", "Dydx"}

Flows == 1..MaxFlows

\* What the chain registry can answer for a chain: the denom of its first
\* staking token ("" when the config has none) and the transfer channel of
\* the connection to it.
Denoms == {"", "stake"}

ChannelIds == {"channel-0", "channel-1"}

NoRoute == [channelId |-> "", remoteDenom |-> ""]

\* harden({ localDenom, remoteChainInfo, channelId, remoteDenom }): localDenom
\* is a hash of the other two fields and remoteChainInfo is fixed per chain.
Route(channelId, remoteDenom) == [channelId |-> channelId, remoteDenom |-> remoteDenom]

\* A zone key under which nothing has been stored yet.
NotMade ==
    [made |-> 0, status |-> "none", pc |-> "none", remoteDenom |-> "", value |-> NoRoute]

\* makeAxelarRemoteChannel() and its siblings: the flow makeRemoteChannel
\* starts and its promise is pending; made counts the runs of the maker.
MakeChannel(held) ==
    [made |-> held.made + 1, status |-> "pending", pc |-> "getChainInfo",
     remoteDenom |-> "", value |-> NoRoute]

\* zone.makeOnce(key, maker): the maker runs only when the zone holds nothing
\* under the key; otherwise the stored value is returned.
makeOnce_Always(held, made) == made

makeOnce(held, made) == IF held.made > 0 THEN held ELSE made

\* No offer is being handled by the account kit.
NoOffer ==
    [pc |-> "none", method |-> "none", give |-> 0, messages |-> <<>>, next |-> 1,
     deposited |-> 0, sent |-> 0, exits |-> 0, outcome |-> "none"]

\* A createAndMonitorLCA invocation that has not been made.
NotInvoked ==
    [pc |-> "none", axelar |-> NoRoute, osmosis |-> NoRoute, dydx |-> NoRoute]

\* ------------------------------------------------------------------ actions
CountEvents(events, name, sid) ==
    Cardinality({i \in DOMAIN events : events[i].ev = name /\ events[i].surveyId = sid})

\* The amount the transfers of a transaction send out for survey sid as
\* rewards and refund.
RECURSIVE AmountOut(_, _)
AmountOut(xfers, sid) ==
    IF xfers = <<>> THEN 0
    ELSE (IF Head(xfers).surveyId = sid /\ Head(xfers).why \in {"reward", "refund"}
          THEN Head(xfers).amount ELSE 0)
         + AmountOut(Tail(xfers), sid)

CountTransfers(xfers, why, sid, to) ==
    Cardinality({i \in DOMAIN xfers :
                    xfers[i].why = why /\ xfers[i].surveyId = sid /\ xfers[i].to = to})

\* The off-chain signer issues token k only after tokens 1..k-1 were consumed
\* (tokens are opaque nonces: which unused one comes next does not matter).
TokenInOrder(k) == \A j \in 1..(k - 1) : proofTokens[j]

\* An envelope carries the next unused token or replays the newest consumed one.
TokenChoice(k) ==
    /\ TokenInOrder(k)
    /\ \A j \in Tokens : j > k => ~proofTokens[j]

\* The receipt of a transaction: the entry point called, the envelope or
\* arguments it carried, the error it reverted with, the events it logged and
\* the token transfers it made.
Receipt(entry, e, err, events, xfers) ==
    [entry |-> entry, env |-> e, err |-> err, events |-> events, xfers |-> xfers]

NoReceipt == Receipt("none", Blank, "none", <<>>, <<>>)

Init ==
    /\ managers = [a \in Addresses |-> a = Owner]
    /\ surveys = [s \in SurveyIds |-> ZeroSurvey]
    /\ surveysUsersRewarded = [s \in SurveyIds |-> [p \in Participants |-> FALSE]]
    /\ proofTokens = [k \in Tokens |-> FALSE]
    /\ now = 0
    /\ last = NoReceipt
    /\ refunds = [s \in SurveyIds |-> 0]
    /\ rewardsPaid = [i \in Items |-> 0]
    /\ finished = [s \in SurveyIds |-> 0]
    /\ paidOut = [s \in SurveyIds |-> 0]
    /\ remoteChannel = [c \in Chains |-> makeOnce(NotMade, MakeChannel(NotMade))]
    /\ incarnation = 0
    /\ lca = [i \in Flows |-> NotInvoked]
    /\ accountKits = {}
    /\ localBalance = 0
    /\ offer = NoOffer


\* The storage, event log and token ledger after a transaction with result r.
Apply(entry, e, r) ==
    LET post == Settle(World, r)
    IN  /\ surveys' = post.surveys
        /\ surveysUsersRewarded' = post.surveysUsersRewarded
        /\ proofTokens' = post.proofTokens
        /\ last' = Receipt(entry, e, r.err, post.events, post.xfers)
        /\ refunds' = [s \in SurveyIds |->
                          refunds[s] + CountTransfers(post.xfers, "refund", s,
                                                      surveys[s].surveyCreator)]
        /\ rewardsPaid' = [i \in Items |->
                              rewardsPaid[i] + CountTransfers(post.xfers, "reward", i[1], i[2])]
        /\ finished' = [s \in SurveyIds |->
                           finished[s] + CountEvents(post.events, "SurveyFinished", s)]
        /\ paidOut' = [s \in SurveyIds |-> paidOut[s] + AmountOut(post.xfers, s)]
        /\ UNCHANGED <<managers, now>>
        /\ UNCHANGED <<routing, kit>>

\* The gateway delivers envelope e: execute() or executeWithToken().
Deliver(e) == Apply(e.path, e, Run(World, e, now))

\* Anyone calls the public function preAuthValidations directly.
CallPreAuth(message, token, tte, signature) ==
    LET pa == preAuthValidations(World, message, token, tte, signature, now)
    IN  Apply("preAuthValidations",
              [Blank EXCEPT !.token = token, !.tte = tte, !.sig = signature],
              [err |-> pa.err, w |-> pa.w])

\* The owner calls setManager.
SetManager(m, status) ==
    /\ managers' = IF m = ZeroAddress THEN managers ELSE [managers EXCEPT ![m] = status]
    /\ last' = Receipt("setManager", Blank,
                       IF m = ZeroAddress THEN "InvalidManagerAddress" ELSE "none",
                       IF m = ZeroAddress THEN <<>>
                       ELSE <<Event("UpdateManager", "", m, IF status THEN 1 ELSE 0)>>,
                       <<>>)
    /\ UNCHANGED <<surveys, surveysUsersRewarded, proofTokens, now, refunds, rewardsPaid,
                   finished>>
    /\ UNCHANGED <<paidOut, routing, kit>>

\* No receipt is waiting to be read: the next transaction can be sent.
Idle == last = NoReceipt

\* A later block.
Tick ==
    /\ Idle
    /\ now < MaxTime
    /\ now' = now + 1
    /\ UNCHANGED <<managers, surveys, surveysUsersRewarded, proofTokens, last, refunds,
                   rewardsPaid, finished>>
    /\ UNCHANGED <<paidOut, routing, kit>>

DirectMessages(k) == {NullDigest, CancelHash(k, MaxTime, "S1")}

\* The receipt of a transaction is read and cleared before the next
\* transaction is sent (transactions are serialized).
Acknowledge ==
    /\ ~Idle
    /\ last' = NoReceipt
    /\ UNCHANGED <<managers, surveys, surveysUsersRewarded, proofTokens, now, refunds,
                   rewardsPaid, finished>>
    /\ UNCHANGED <<paidOut, routing, kit>>

GatewayDelivery == Idle /\ \E e \in Envelopes : TokenChoice(e.token) /\ Deliver(e)

DirectValidation ==
    /\ Idle
    /\ \E k \in Tokens : \E m \in DirectMessages(k) : \E sg \in {Sig("user", m), BadSig} :
          TokenInOrder(k) /\ CallPreAuth(m, k, MaxTime, sg)

OwnerSetsManager ==
    Idle /\ \E m \in Managed \cup {ZeroAddress}, status \in BOOLEAN : SetManager(m, status)

Next ==
    \/ GatewayDelivery
    \/ DirectValidation
    \/ OwnerSetsManager
    \/ Tick
    \/ Acknowledge

Spec == Init /\ [][Next]_vars

\* ------------------------------------------------------------------- claims
\* In a step that runs a transaction, last' is its receipt, the unprimed
\* variables are the storage before it and the primed ones the storage after.
Delivered(r) == r.entry \in {"execute", "executeWithToken"}

IsCreate(r) == r.entry = "executeWithToken" /\ r.env.msgId = CREATE_SURVEY_MSG_ID

IsCancel(r) == r.entry = "execute" /\ r.env.msgId = CANCEL_SURVEY_MSG_ID

IsPay(r) == r.entry = "execute" /\ r.env.msgId = PAY_REWARDS_MSG_ID

TrustedOrigin(e) == e.sourceChain = AGORIC_CHAIN /\ e.sourceAddress = SENDER

\* The envelope with its origin replaced by the trusted one.
Rerouted(e) == [e EXCEPT !.sourceChain = AGORIC_CHAIN, !.sourceAddress = SENDER]

\* The identity that signature recovery yields for the envelope while its
\* token is unused.
Recovered(e) == getSigner(ProperDigest(e), e.sig)

\* Evaluated on the storage before the transaction: the envelope gets as far
\* as preAuthValidations.
ReachesValidation(r) ==
    /\ Delivered(r) /\ TrustedOrigin(r.env)
    /\ \/ IsCreate(r) /\ r.env.amount = 0
       \/ /\ IsCancel(r)
          /\ surveys[r.env.surveyId].surveyCreator # ZeroAddress
          /\ ~surveys[r.env.surveyId].isCanceled
          /\ (r.env.caller = surveys[r.env.surveyId].surveyCreator \/ managers[r.env.caller])
          /\ surveys[r.env.surveyId].participantsRewarded
                < surveys[r.env.surveyId].participantsLimit
       \/ IsPay(r) /\ Len(r.env.ids) = Len(r.env.parts)

\* ... and passes it: unused token, unexpired, a signature that recovers to
\* some identity.
PassesValidation(r) ==
    /\ ReachesValidation(r)
    /\ ~proofTokens[r.env.token]
    /\ now <= r.env.tte
    /\ Recovered(r.env) # ZeroAddress


\* The envelope is signed by "mgr" over its own digest, and its transfers go through.
WellSigned(e) == e.sig = Sig("mgr", ProperDigest(e)) /\ e.failAt = 0

StorageUnchanged ==
    UNCHANGED <<managers, surveys, surveysUsersRewarded, proofTokens, refunds, rewardsPaid,
                finished, paidOut>>

\* C1: in every reachable state and for every survey id,
\* participantsRewarded <= participantsLimit.
C1_RewardedWithinLimit ==
    \A s \in SurveyIds : surveys[s].participantsRewarded <= surveys[s].participantsLimit

\* A survey of limit 2 is fully rewarded and a further, validly signed payment
\* to it has just been refused.
C1_Witness ==
    /\ IsPay(last) /\ last.err = "AllParticipantsRewarded"
    /\ \E s \in SurveyIds :
          /\ surveys[s].participantsLimit = 2
          /\ surveys[s].participantsRewarded = 2
          /\ last.env.ids = <<s>>

\* C2: once proofTokens[t] is true it stays true, and no later transaction
\* that presents t (a create, cancel or pay-rewards envelope, or a direct call
\* of preAuthValidations, with any arguments, expiry and signature) succeeds.
C2_TokenNeverRevalidates ==
    [][\A k \in Tokens :
          proofTokens[k] =>
              /\ proofTokens'[k]
              /\ (last'.entry \in {"execute", "executeWithToken", "preAuthValidations"}
                  /\ last'.env.token = k) => last'.err # "none"]_vars

\* A consumed token has been presented again, unexpired and properly signed,
\* and was refused.
C2_Witness ==
    /\ Delivered(last)
    /\ TrustedOrigin(last.env) /\ WellSigned(last.env) /\ now <= last.env.tte
    /\ proofTokens[last.env.token]
    /\ last.err = "InvalidMessageHash"

\* C3: a create envelope whose received amount differs from
\* participantsLimit*rewardAmount + gasStationAmount fails, and the failure
\* leaves the survey mapping as it was: no record for an id that had none.
C3_UnderfundedCreateLeavesNoRecord ==
    [][(IsCreate(last')
        /\ last'.env.amount # last'.env.limit * last'.env.reward + last'.env.gas)
          => /\ last'.err # "none"
             /\ surveys' = surveys
             /\ (surveys[last'.env.surveyId] = ZeroSurvey
                    => surveys'[last'.env.surveyId] = ZeroSurvey)]_vars

\* A validly signed create for a fresh id has got as far as the funding check
\* (after the record was written) and failed it; the id has no record.
C3_Witness ==
    /\ IsCreate(last) /\ last.err = "InvalidTrxValue"
    /\ surveys[last.env.surveyId] = ZeroSurvey

\* C4: at most one refund transfer is ever made per survey; a cancel envelope
\* for a canceled survey fails with SurveyAlreadyCanceled, transfers nothing
\* and changes no state, whatever its token and proof.
C4_NoDoubleRefund ==
    [][/\ \A s \in SurveyIds : refunds'[s] <= 1
       /\ (IsCancel(last') /\ TrustedOrigin(last'.env)
           /\ surveys[last'.env.surveyId].isCanceled)
             => /\ last'.err = "SurveyAlreadyCanceled"
                /\ last'.events = <<>>
                /\ StorageUnchanged]_vars

\* A second cancel of a refunded survey, with an unused token and a valid
\* manager proof, has been refused.
C4_Witness ==
    /\ IsCancel(last) /\ last.err = "SurveyAlreadyCanceled"
    /\ refunds[last.env.surveyId] = 1
    /\ WellSigned(last.env) /\ managers["mgr"] /\ now <= last.env.tte
    /\ ~proofTokens[last.env.token]

\* An item of the batch names a pair that is already recorded as rewarded, or
\* that an earlier item of the same batch names.
RepeatedItem(e) ==
    \E j \in DOMAIN e.parts :
        \/ surveysUsersRewarded[e.ids[j]][e.parts[j]]
        \/ \E i \in 1..(j - 1) : e.ids[i] = e.ids[j] /\ e.parts[i] = e.parts[j]

PayReachesLoop(r) == IsPay(r) /\ PassesValidation(r) /\ managers[Recovered(r.env)]

\* C5 as stated: a pay-rewards item for a pair already recorded fails with
\* UserAlreadyRewarded (here: the first item of a batch whose proof is good).
C5_RepeatFailsAlreadyRewarded ==
    [][(PayReachesLoop(last') /\ Len(last'.env.parts) >= 1
        /\ surveysUsersRewarded[last'.env.ids[1]][last'.env.parts[1]])
          => last'.err = "UserAlreadyRewarded"]_vars

\* C5, amended: at most one reward transfer is ever made per (survey,
\* participant); a batch with an item for a recorded pair, or with the same
\* pair twice, reverts as a whole with no transfer and no increment; the error
\* is UserAlreadyRewarded when the repeat is the first item and its survey is
\* neither canceled nor at its limit (those two checks come first).
C5_NoDoubleReward ==
    [][/\ \A i \in Items : rewardsPaid'[i] <= 1
       /\ (PayReachesLoop(last') /\ RepeatedItem(last'.env))
             => /\ last'.err \in {"UserAlreadyRewarded", "SurveyAlreadyCanceled",
                                  "AllParticipantsRewarded", "TransferFailed"}
                /\ StorageUnchanged
       /\ (PayReachesLoop(last') /\ Len(last'.env.parts) >= 1
           /\ surveysUsersRewarded[last'.env.ids[1]][last'.env.parts[1]]
           /\ ~surveys[last'.env.ids[1]].isCanceled
           /\ surveys[last'.env.ids[1]].participantsRewarded
                 < surveys[last'.env.ids[1]].participantsLimit)
             => last'.err = "UserAlreadyRewarded"]_vars

\* A participant paid by an earlier envelope is named again by a later one,
\* which is refused; the counter still reads 1.
C5_Witness ==
    /\ IsPay(last) /\ last.err = "UserAlreadyRewarded"
    /\ Len(last.env.parts) = 1
    /\ rewardsPaid[<<last.env.ids[1], last.env.parts[1]>>] = 1
    /\ surveys[last.env.ids[1]].participantsRewarded = 1

\* C6: SurveyFinished is emitted at most once per survey, by the payment that
\* brings participantsRewarded from below the limit to the limit, right after
\* that payment's RewardPaid event.
C6_FinishedExactlyOnce ==
    [][/\ \A s \in SurveyIds : finished'[s] <= 1
       /\ Delivered(last') =>
             /\ \A s \in SurveyIds :
                   CountEvents(last'.events, "SurveyFinished", s)
                      = IF /\ surveys[s].participantsRewarded < surveys[s].participantsLimit
                           /\ surveys'[s].participantsRewarded = surveys'[s].participantsLimit
                        THEN 1 ELSE 0
             /\ \A i \in DOMAIN last'.events :
                   last'.events[i].ev = "SurveyFinished" =>
                      /\ i > 1
                      /\ last'.events[i - 1].ev = "RewardPaid"
                      /\ last'.events[i - 1].surveyId = last'.events[i].surveyId
                      /\ surveys[last'.events[i].surveyId].participantsRewarded
                            + Cardinality({j \in 1..(i - 1) :
                                  /\ last'.events[j].ev = "RewardPaid"
                                  /\ last'.events[j].surveyId = last'.events[i].surveyId})
                         = surveys[last'.events[i].surveyId].participantsLimit]_vars

\* A batch of two payments has brought a survey of limit 2 to its limit and
\* logged SurveyFinished once.
C6_Witness ==
    /\ IsPay(last) /\ last.err = "none" /\ Len(last.env.parts) = 2
    /\ \E s \in SurveyIds :
          /\ surveys[s].participantsLimit = 2
          /\ finished[s] = 1
          /\ CountEvents(last.events, "SurveyFinished", s) = 1

\* C7 as stated, its first step: a create envelope with participantsLimit = 2,
\* rewardAmount = 10 and received funding 20 + gasStationAmount, from the
\* trusted origin, for a new id, with an unused token and a valid manager
\* proof, succeeds and records the survey.
C7_FundedCreateSucceeds ==
    [][(/\ IsCreate(last') /\ TrustedOrigin(last'.env) /\ WellSigned(last'.env)
        /\ managers["mgr"] /\ ~proofTokens[last'.env.token] /\ now <= last'.env.tte
        /\ surveys[last'.env.surveyId] = ZeroSurvey
        /\ last'.env.limit = 2 /\ last'.env.reward = 10
        /\ last'.env.amount = 20 + last'.env.gas)
          => /\ last'.err = "none"
             /\ surveys'[last'.env.surveyId].participantsLimit = 2
             /\ surveys'[last'.env.surveyId].rewardAmount = 10]_vars

\* C8: an envelope from another source chain fails with WrongSource, one from
\* the trusted chain but another sender with WrongSender; either leaves the
\* storage as it was and logs nothing, so the same envelope from the trusted
\* origin fares afterwards as it would have fared before.
C8_WrongOriginRejected ==
    [][Delivered(last') =>
          /\ last'.env.sourceChain # AGORIC_CHAIN => last'.err = "WrongSource"
          /\ (last'.env.sourceChain = AGORIC_CHAIN /\ last'.env.sourceAddress # SENDER)
                => last'.err = "WrongSender"
          /\ ~TrustedOrigin(last'.env) =>
                /\ StorageUnchanged
                /\ last'.events = <<>>
                /\ Run(World', Rerouted(last'.env), now').err
                      = Run(World, Rerouted(last'.env), now).err]_vars

\* An envelope from another chain was refused; its token is unused and the
\* same envelope from the trusted origin would now succeed.
C8_Witness ==
    /\ Delivered(last) /\ last.err = "WrongSource"
    /\ ~proofTokens[last.env.token]
    /\ Run(World, Rerouted(last.env), now).err = "none"

\* C9: the survey mapping and the reward membership change only in an
\* envelope whose signature recovers to a manager; an envelope whose proof
\* passes validation but recovers to a non-manager fails with InvalidSigner
\* and changes nothing.
C9_OnlyManagerProofsMutate ==
    [][/\ ledger' # ledger => (Delivered(last') /\ managers[Recovered(last'.env)])
       /\ (PassesValidation(last') /\ ~managers[Recovered(last'.env)])
             => (last'.err = "InvalidSigner" /\ StorageUnchanged)]_vars

\* An envelope properly signed by a key that is not a manager's was refused.
C9_Witness ==
    /\ Delivered(last) /\ last.err = "InvalidSigner"
    /\ last.env.sig = Sig("user", ProperDigest(last.env))
    /\ ~proofTokens[last.env.token]

\* C10 as stated: an envelope that passes proof validation and then fails
\* (non-manager signer, or a later business check) has consumed its token.
C10_FailedEnvelopeConsumesToken ==
    [][(PassesValidation(last') /\ last'.err # "none")
          => proofTokens'[last'.env.token]]_vars

\* C10, amended: an envelope that passes proof validation and then fails
\* reverts as a whole: proofTokens is as before, its token is still unused.
C10_FailedEnvelopeKeepsToken ==
    [][(Delivered(last') /\ last'.err # "none")
          => /\ proofTokens' = proofTokens
             /\ PassesValidation(last') => ~proofTokens'[last'.env.token]]_vars

\* A create with a valid manager proof failed on an existing survey id; its
\* token is unused.
C10_Witness ==
    /\ IsCreate(last) /\ last.err = "SurveyExists"
    /\ WellSigned(last.env) /\ managers["mgr"]
    /\ ~proofTokens[last.env.token]

\* The transaction is a gateway delivery or a direct call of preAuthValidations.
Validating(r) == r.entry \in {"execute", "executeWithToken", "preAuthValidations"}

\* C11 as stated: a validation that fails with ProofExpired or ZeroAddress
\* marks the token it carried as consumed.
C11_ExpiredOrZeroSignerConsumesToken ==
    [][(Validating(last') /\ last'.err \in {"ProofExpired", "ZeroAddress"})
          => proofTokens'[last'.env.token]]_vars

\* C11, amended: no failed validation marks a token.  Whether the failure is
\* InvalidMessageHash, TokenAlreadyUsed, ProofExpired, ZeroAddress or
\* InvalidSigner, proofTokens is as before, and a token that was unused is
\* still unused.
C11_FailedValidationMarksNothing ==
    [][(Validating(last')
        /\ last'.err \in {"InvalidMessageHash", "TokenAlreadyUsed", "ProofExpired",
                          "ZeroAddress", "InvalidSigner"})
          => /\ proofTokens' = proofTokens
             /\ \A k \in Tokens : proofTokens'[k] => proofTokens[k]]_vars

\* A manager-signed envelope was refused as expired; its token is unused.
C11_Witness ==
    /\ Delivered(last) /\ last.err = "ProofExpired"
    /\ last.env.sig = Sig("mgr", ProperDigest(last.env)) /\ managers["mgr"]
    /\ now > last.env.tte
    /\ ~proofTokens[last.env.token]

C13_LengthMismatchBeforeProof ==
    [][(IsPay(last') /\ TrustedOrigin(last'.env)
        /\ Len(last'.env.ids) # Len(last'.env.parts))
          => /\ last'.err = "ArrayLengthMismatch"
             /\ StorageUnchanged
             /\ last'.events = <<>>]_vars

\* A batch with more survey ids than participants, carrying an unused token
\* and an unexpired manager proof, was refused; the token is unused.
C13_Witness ==
    /\ IsPay(last) /\ last.err = "ArrayLengthMismatch"
    /\ Len(last.env.ids) > Len(last.env.parts)
    /\ WellSigned(last.env) /\ managers["mgr"] /\ now <= last.env.tte
    /\ ~proofTokens[last.env.token]

\* The envelope gets as far as the dispatch on its message kind: trusted
\* origin and, on the token-bearing path, nothing attached.
ReachesDispatch(r) ==
    /\ Delivered(r) /\ TrustedOrigin(r.env)
    /\ r.entry = "executeWithToken" => r.env.amount = 0

\* C14: dispatch on the message kind is total and exclusive.  Of the
\* envelopes that reach it, execute handles kinds 1 and 2 and
\* executeWithToken kind 0; every other kind on either path fails with
\* WrongMsgId and changes nothing; a handled kind never fails with
\* WrongMsgId, and each ledger event comes only from the path and kind that
\* handles it.
C14_DispatchTotalExclusive ==
    [][/\ ReachesDispatch(last') =>
             LET handled ==
                    \/ last'.entry = "execute"
                       /\ last'.env.msgId \in {CANCEL_SURVEY_MSG_ID, PAY_REWARDS_MSG_ID}
                    \/ last'.entry = "executeWithToken"
                       /\ last'.env.msgId = CREATE_SURVEY_MSG_ID
             IN  /\ ~handled => /\ last'.err = "WrongMsgId"
                                /\ StorageUnchanged
                                /\ last'.events = <<>>
                 /\ handled => last'.err # "WrongMsgId"
       /\ \A i \in DOMAIN last'.events :
             /\ last'.events[i].ev = "SurveyCreated" => IsCreate(last')
             /\ last'.events[i].ev = "SurveyCanceled" => IsCancel(last')
             /\ last'.events[i].ev \in {"RewardPaid", "SurveyFinished"} => IsPay(last')]_vars

\* A manager-signed create payload arrived on the token-less path and was
\* refused; its survey has no record and its token is unused.
C14_Witness ==
    /\ last.entry = "execute" /\ last.env.msgId = CREATE_SURVEY_MSG_ID
    /\ last.err = "WrongMsgId"
    /\ WellSigned(last.env) /\ managers["mgr"]
    /\ surveys[last.env.surveyId] = ZeroSurvey
    /\ ~proofTokens[last.env.token]

C16_CreatedAtMostOnce ==
    [][/\ \A s \in SurveyIds :
             surveys[s].surveyCreator # ZeroAddress =>
                /\ CountEvents(last'.events, "SurveyCreated", s) = 0
                /\ surveys'[s].surveyCreator = surveys[s].surveyCreator
                /\ surveys'[s].participantsLimit = surveys[s].participantsLimit
                /\ surveys'[s].rewardAmount = surveys[s].rewardAmount
                /\ surveys'[s].surveyHash = surveys[s].surveyHash
                /\ surveys'[s].rewardToken = surveys[s].rewardToken
       /\ (IsCreate(last') /\ surveys[last'.env.surveyId].surveyCreator # ZeroAddress)
             => /\ last'.err # "none"
                /\ surveys' = surveys
       /\ (IsCreate(last') /\ PassesValidation(last') /\ managers[Recovered(last'.env)]
           /\ surveys[last'.env.surveyId].surveyCreator # ZeroAddress)
             => /\ last'.err = "SurveyExists"
                /\ StorageUnchanged
                /\ last'.events = <<>>]_vars

\* A create with a valid manager proof for the id of a canceled survey, with
\* other parameters than the record's, was refused; the record is as it was.
C16_Witness ==
    /\ IsCreate(last) /\ last.err = "SurveyExists"
    /\ surveys[last.env.surveyId].isCanceled
    /\ surveys[last.env.surveyId].participantsLimit # last.env.limit

\* C17: a successful cancel of survey s makes exactly one transfer, of
\* participantsLimit*rewardAmount - participantsRewarded*rewardAmount in the
\* survey's reward token to the survey's recorded creator, sets isCanceled,
\* logs exactly one SurveyCanceled and changes no other field and no other
\* survey.  The last three conjuncts run the handler on the record of the
\* claim's example (limit 3, reward 5, one rewarded): the refund is 10.
C17_CancelRefundsRemainder ==
    [][(IsCancel(last') /\ last'.err = "none") =>
          LET s == last'.env.surveyId
              w == [World EXCEPT
                       !.managers["mgr"] = TRUE,
                       !.proofTokens = [k \in Tokens |-> FALSE],
                       !.surveys["S2"] =
                           [surveyCreator |-> "relay", participantsLimit |-> 3,
                            rewardAmount |-> 5, participantsRewarded |-> 1,
                            surveyHash |-> "h1", rewardToken |-> RewardToken,
                            isCanceled |-> FALSE]]
              e == Signed([Blank EXCEPT !.surveyId = "S2", !.caller = "mgr"], "mgr")
              r == handleCancelSurvey(w, e, now)
          IN  /\ ~surveys[s].isCanceled
              /\ last'.xfers =
                    <<Transfer("refund", s, surveys[s].rewardToken,
                               surveys[s].surveyCreator,
                               surveys[s].participantsLimit * surveys[s].rewardAmount
                                 - surveys[s].participantsRewarded * surveys[s].rewardAmount)>>
              /\ surveys' = [surveys EXCEPT ![s].isCanceled = TRUE]
              /\ surveysUsersRewarded' = surveysUsersRewarded
              /\ refunds' = [refunds EXCEPT ![s] = 1]
              /\ last'.events = <<Event("SurveyCanceled", s, ZeroAddress, 0),
                                  Event("ExecuteEventCompleted", "", ZeroAddress,
                                        CANCEL_SURVEY_MSG_ID)>>
              /\ r.err = "none"
              /\ r.w.xfers = <<Transfer("refund", "S2", RewardToken, "relay", 10)>>
              /\ r.w.surveys["S2"].isCanceled]_vars

\* A manager that is not the survey's creator has canceled a survey with one
\* rewarded participant of two; the one transfer went to the creator.
C17_Witness ==
    /\ IsCancel(last) /\ last.err = "none"
    /\ last.env.caller = "mgr"
    /\ surveys[last.env.surveyId].participantsLimit = 2
    /\ surveys[last.env.surveyId].participantsRewarded = 1
    /\ surveys[last.env.surveyId].isCanceled
    /\ surveys[last.env.surveyId].surveyCreator = "relay"
    /\ Len(last.xfers) = 1 /\ last.xfers[1].to = "relay"

\* C18: a cancel envelope (from the trusted origin) is tested against the
\* survey's state before its proof is validated.  If the survey is absent,
\* canceled, fully rewarded, or the caller is neither its creator nor a
\* manager, the envelope fails with the error of the first of these tests
\* that applies in the code's order (absent, canceled, caller, fully
\* rewarded), whatever its token, expiry and signature, and changes nothing.
\* Otherwise it fails, if it does, with an error of the proof.
C18_CancelChecksStateFirst ==
    [][(IsCancel(last') /\ TrustedOrigin(last'.env)) =>
          LET rec == surveys[last'.env.surveyId]
              absent == rec.surveyCreator = ZeroAddress
              canceled == rec.isCanceled
              stranger == last'.env.caller # rec.surveyCreator /\ ~managers[last'.env.caller]
              full == rec.participantsRewarded >= rec.participantsLimit
              business == {"SurveyDoesNotExist", "SurveyAlreadyCanceled",
                           "OnlyCreatorOrManager", "AllParticipantsRewarded"}
          IN  /\ (absent \/ canceled \/ stranger \/ full) =>
                    /\ last'.err = IF absent THEN "SurveyDoesNotExist"
                                   ELSE IF canceled THEN "SurveyAlreadyCanceled"
                                   ELSE IF stranger THEN "OnlyCreatorOrManager"
                                   ELSE "AllParticipantsRewarded"
                    /\ StorageUnchanged
                    /\ last'.events = <<>>
                    /\ last'.xfers = <<>>
              /\ ~(absent \/ canceled \/ stranger \/ full) => last'.err \notin business]_vars

\* A cancel by the creator, with an unused token and an unexpired manager
\* proof, of a survey whose participants are all rewarded was refused; the
\* token is unused.
C18_Witness ==
    /\ IsCancel(last) /\ last.err = "AllParticipantsRewarded"
    /\ last.env.caller = surveys[last.env.surveyId].surveyCreator
    /\ surveys[last.env.surveyId].participantsLimit = 1
    /\ surveys[last.env.surveyId].participantsRewarded = 1
    /\ WellSigned(last.env) /\ managers["mgr"] /\ now <= last.env.tte
    /\ ~proofTokens[last.env.token]

\* C19: an envelope that succeeds logs ExecuteEventCompleted exactly once,
\* with the envelope's message kind, as the last event of the transaction; an
\* envelope that fails logs nothing, and no other transaction logs it.
C19_CompletedOncePerSuccess ==
    [][LET n == Len(last'.events)
           completions == {i \in 1..n : last'.events[i].ev = "ExecuteEventCompleted"}
       IN  /\ (Delivered(last') /\ last'.err = "none") =>
                 /\ n >= 1
                 /\ completions = {n}
                 /\ last'.events[n].n = last'.env.msgId
           /\ (Delivered(last') /\ last'.err # "none") => n = 0
           /\ ~Delivered(last') => completions = {}]_vars

\* A batch of two payments went through: two RewardPaid events, then the
\* completion event with the pay-rewards kind.
C19_Witness ==
    /\ IsPay(last) /\ last.err = "none"
    /\ Len(last.events) >= 3
    /\ last.events[1].ev = "RewardPaid" /\ last.events[2].ev = "RewardPaid"
    /\ last.events[Len(last.events)].ev = "ExecuteEventCompleted"
    /\ last.events[Len(last.events)].n = PAY_REWARDS_MSG_ID

\* C20 as stated: after a successful create the creator of the record, and
\* the creator named in SurveyCreated, is the owner address of the payload
\* (the one bound into the create digest).
C20_CreatorIsPayloadOwner ==
    [][(IsCreate(last') /\ last'.err = "none") =>
          /\ surveys'[last'.env.surveyId].surveyCreator = last'.env.owner
          /\ \A i \in DOMAIN last'.events :
                last'.events[i].ev = "SurveyCreated" => last'.events[i].who = last'.env.owner]_vars

\* C21: for a consumed token the three proof functions return the null
\* digest whatever their other arguments; preAuthValidations fails with
\* InvalidMessageHash on the null digest and with TokenAlreadyUsed on another
\* digest paired with a consumed token; so an envelope that gets as far as
\* validation with a consumed token fails with InvalidMessageHash, and
\* TokenAlreadyUsed is never the error of an envelope.
C21_ReusedTokenFailsAsNullDigest ==
    [][Validating(last') =>
          LET k == last'.env.token
          IN  /\ (last'.entry = "preAuthValidations" /\ proofTokens[k]) =>
                    /\ \A x \in Times, s \in SurveyIds :
                          /\ \A f \in PaidFundings, o \in Owners \cup Relayers :
                                createProof(proofTokens, k, x, o, s, f.limit, f.reward,
                                            "h1", f.gas) = NullDigest
                          /\ cancelProof(proofTokens, k, x, s) = NullDigest
                    /\ \A x \in Times, b \in Mismatched :
                          rewardProof(proofTokens, k, x, b.ids, b.parts) = NullDigest
              /\ (Delivered(last') /\ ReachesValidation(last') /\ proofTokens[k])
                    => last'.err = "InvalidMessageHash"
              /\ Delivered(last') => last'.err # "TokenAlreadyUsed"
              /\ (last'.entry = "preAuthValidations" /\ last'.env.sig.by # ZeroAddress) =>
                    /\ last'.env.sig.over = NullDigest => last'.err = "InvalidMessageHash"
                    /\ (last'.env.sig.over # NullDigest /\ proofTokens[k])
                          => last'.err = "TokenAlreadyUsed"]_vars

\* A pay-rewards envelope carrying a consumed token with an otherwise valid
\* manager proof was refused with InvalidMessageHash.
C21_Witness ==
    /\ IsPay(last) /\ last.err = "InvalidMessageHash"
    /\ Len(last.env.ids) = Len(last.env.parts)
    /\ proofTokens[last.env.token]
    /\ WellSigned(last.env) /\ managers["mgr"] /\ now <= last.env.tte

\* The batches of each length.
BatchesOfLength == [n \in 0..MaxBatch |-> {b \in Batches : Len(b.ids) = n}]

\* The pay-rewards envelope e with the contents of its arrays replaced by
\* those of batch b (same token, expiry and signature).
Reshuffled(e, b) == [e EXCEPT !.ids = b.ids, !.parts = b.parts]

\* The pay-rewards envelope e repeats the first item of ItemList.
RepeatsFirstItem(e) ==
    \A j \in DOMAIN e.ids : e.ids[j] = ItemList[1][1] /\ e.parts[j] = ItemList[1][2]

\* C22: the pay-rewards digest depends only on token, expiry and the two
\* array lengths.  For a pay-rewards envelope and any batch of the same
\* lengths the digest is the same, and proof validation of a batch with
\* other survey ids and participants, under the same token, expiry and
\* signature, gives the same result (error or recovered signer): a signature
\* accepted for one is accepted for the other.  Every batch is compared with
\* the batch of its length that repeats the first item, in every state in
\* which a pay-rewards envelope is delivered.
C22_RewardProofBindsLengthsOnly ==
    [][(IsPay(last') /\ TrustedOrigin(last'.env)
        /\ Len(last'.env.ids) = Len(last'.env.parts)
        /\ RepeatsFirstItem(last'.env)) =>
          LET e == last'.env
              digest(x) == rewardProof(proofTokens, x.token, x.tte, x.ids, x.parts)
              validated(x) == preAuthValidations(World, digest(x), x.token, x.tte, x.sig, now)
          IN  /\ \A b \in BatchesOfLength[Len(e.ids)] :
                    /\ digest(Reshuffled(e, b)) = digest(e)
                    /\ validated(Reshuffled(e, b)) = validated(e)
                    /\ (e.sig.by # ZeroAddress /\ e.sig.over = ProperDigest(e))
                          => getSigner(ProperDigest(Reshuffled(e, b)), e.sig) = e.sig.by
              /\ validated(e).err = "none" <=> PassesValidation(last')]_vars

\* A payment to A on S1 went through with a manager's signature that is just
\* as well a signature for paying B on S2.
C22_Witness ==
    /\ IsPay(last) /\ last.err = "none"
    /\ last.env.ids = <<"S1">> /\ last.env.parts = <<"A">>
    /\ surveysUsersRewarded["S1"]["A"]
    /\ last.env.sig.by = "mgr"
    /\ last.env.sig.over
          = ProperDigest(Reshuffled(last.env, [ids |-> <<"S2">>, parts |-> <<"B">>]))

\* C23: expiry is a strict comparison.  A validation fails with ProofExpired
\* only when block.timestamp > expiry, and an envelope that reaches the
\* expiry test (it gets as far as validation with an unused token) fails with
\* ProofExpired exactly when block.timestamp > expiry: at block.timestamp =
\* expiry the proof is not expired.
C23_ExpiryIsStrict ==
    [][Validating(last') =>
          /\ last'.err = "ProofExpired" => now > last'.env.tte
          /\ (Delivered(last') /\ ReachesValidation(last') /\ ~proofTokens[last'.env.token])
                => (last'.err = "ProofExpired" <=> now > last'.env.tte)]_vars

\* An envelope whose proof expires at the current time, later than time 0,
\* was accepted and carried out.
C23_Witness ==
    /\ Delivered(last) /\ last.err = "none"
    /\ now > 0 /\ last.env.tte = now
    /\ proofTokens[last.env.token]

\* C24: isCanceled is one-way.  Once a survey is canceled its record
\* (isCanceled and participantsRewarded included) and its reward membership
\* never change, and no transaction makes a transfer for it; a pay-rewards
\* batch that names it fails, with SurveyAlreadyCanceled when it is the
\* survey of the first item the loop reaches.
C24_CanceledIsFinal ==
    [][/\ \A s \in SurveyIds :
             surveys[s].isCanceled =>
                /\ surveys'[s] = surveys[s]
                /\ surveysUsersRewarded'[s] = surveysUsersRewarded[s]
                /\ refunds'[s] = refunds[s]
                /\ \A p \in Participants : rewardsPaid'[<<s, p>>] = rewardsPaid[<<s, p>>]
                /\ \A i \in DOMAIN last'.xfers : last'.xfers[i].surveyId # s
       /\ (IsPay(last') /\ TrustedOrigin(last'.env)
           /\ \E j \in DOMAIN last'.env.ids : surveys[last'.env.ids[j]].isCanceled)
             => last'.err # "none"
       /\ (PayReachesLoop(last') /\ Len(last'.env.ids) >= 1
           /\ surveys[last'.env.ids[1]].isCanceled)
             => last'.err = "SurveyAlreadyCanceled"]_vars

\* A payment with a valid manager proof to a participant of a canceled survey
\* that still had room was refused; nobody is recorded as rewarded.
C24_Witness ==
    /\ IsPay(last) /\ last.err = "SurveyAlreadyCanceled"
    /\ Len(last.env.ids) = 1
    /\ surveys[last.env.ids[1]].isCanceled
    /\ surveys[last.env.ids[1]].participantsRewarded = 0
    /\ surveys[last.env.ids[1]].participantsLimit > 0
    /\ ~surveysUsersRewarded[last.env.ids[1]][last.env.parts[1]]
    /\ refunds[last.env.ids[1]] = 1

\* C25: the record of an existing survey keeps its creator, limit, reward,
\* hash and token, hence its funding limit*reward, in every step; a
\* pay-rewards envelope changes nothing of the records but
\* participantsRewarded, a cancel nothing but isCanceled (and no reward
\* membership), and a transaction that is not a delivery changes no record
\* and no membership.
C25_RecordFrame ==
    [][/\ \A s \in SurveyIds :
             surveys[s].surveyCreator # ZeroAddress =>
                /\ [surveys'[s] EXCEPT !.participantsRewarded = 0, !.isCanceled = FALSE]
                      = [surveys[s] EXCEPT !.participantsRewarded = 0, !.isCanceled = FALSE]
                /\ surveys'[s].participantsLimit * surveys'[s].rewardAmount
                      = surveys[s].participantsLimit * surveys[s].rewardAmount
       /\ IsPay(last') =>
             \A s \in SurveyIds :
                [surveys'[s] EXCEPT !.participantsRewarded = 0]
                   = [surveys[s] EXCEPT !.participantsRewarded = 0]
       /\ IsCancel(last') =>
             /\ surveysUsersRewarded' = surveysUsersRewarded
             /\ \A s \in SurveyIds :
                   [surveys'[s] EXCEPT !.isCanceled = FALSE]
                      = [surveys[s] EXCEPT !.isCanceled = FALSE]
       /\ ~Delivered(last') => ledger' = ledger]_vars

\* A survey created with limit 2 has seen a payment and then a cancel; its
\* creator, limit, reward, hash and token are those of the create.
C25_Witness ==
    /\ IsCancel(last) /\ last.err = "none"
    /\ LET rec == surveys[last.env.surveyId]
       IN  /\ rec.participantsRewarded = 1 /\ rec.isCanceled
           /\ rec.surveyCreator = "relay" /\ rec.participantsLimit = 2
           /\ rec.rewardAmount = 0 /\ rec.surveyHash = "h1"
           /\ rec.rewardToken = RewardToken

\* C26 as stated: every survey record that exists has participantsLimit > 0
\* and rewardAmount > 0.
C26_PositiveLimitAndReward ==
    \A s \in SurveyIds :
        surveys[s].surveyCreator # ZeroAddress =>
            (surveys[s].participantsLimit > 0 /\ surveys[s].rewardAmount > 0)

\* The batch names the same (survey, participant) pair in two of its items.
HasDuplicate(e) ==
    \E i, j \in DOMAIN e.parts : i < j /\ e.ids[i] = e.ids[j] /\ e.parts[i] = e.parts[j]

\* The batch is the same pair twice, the pair is not yet rewarded, its survey
\* is open with room for two, and the token contract makes every transfer.
PayableTwice(e) ==
    /\ Len(e.parts) = 2 /\ HasDuplicate(e) /\ e.failAt = 0
    /\ ~surveysUsersRewarded[e.ids[1]][e.parts[1]]
    /\ ~surveys[e.ids[1]].isCanceled
    /\ surveys[e.ids[1]].participantsRewarded + 2 <= surveys[e.ids[1]].participantsLimit

\* C27 as stated: of a batch with the same pair twice the first occurrence
\* is paid and only the duplicate is rejected.
C27_DuplicateRejectedItemByItem ==
    [][(PayReachesLoop(last') /\ PayableTwice(last'.env))
          => /\ surveysUsersRewarded'[last'.env.ids[1]][last'.env.parts[1]]
             /\ surveys'[last'.env.ids[1]].participantsRewarded
                   = surveys[last'.env.ids[1]].participantsRewarded + 1]_vars

\* C27, amended: a batch with the same pair twice is aborted as a whole.
\* Nothing of it is kept: not the payment of the first occurrence, not those
\* of its other items, no event, no transfer, and its token stays unused.
\* When the first occurrence is payable the error is UserAlreadyRewarded,
\* raised at the second occurrence.
C27_DuplicateAbortsWholeBatch ==
    [][(PayReachesLoop(last') /\ HasDuplicate(last'.env))
          => /\ last'.err # "none"
             /\ StorageUnchanged
             /\ last'.events = <<>>
             /\ last'.xfers = <<>>
             /\ ~proofTokens'[last'.env.token]
             /\ PayableTwice(last'.env) => last'.err = "UserAlreadyRewarded"]_vars

\* A validly signed batch naming a payable pair twice was refused; the pair
\* is not recorded as rewarded and nothing was paid to it.
C27_Witness ==
    /\ IsPay(last) /\ last.err = "UserAlreadyRewarded"
    /\ PayableTwice(last.env)
    /\ rewardsPaid[<<last.env.ids[1], last.env.parts[1]>>] = 0
    /\ surveys[last.env.ids[1]].participantsRewarded = 0

\* ------------------------------------------------------------- re-entrancy
\* The contract inherits ReentrancyGuardUpgradeable and initialises it, but no
\* function carries the nonReentrant modifier, and both handlers call the
\* token contract before they write their own state.  The definitions below
\* model a token contract that, while a transfer is running, calls execute()
\* again with another approved envelope cb.  The nested call runs on the
\* storage as the outer call has left it so far.  Only one level of nesting
\* is modelled, and the nested call happens inside the transfer numbered at.

\* Envelopes a token contract can pass in the nested call.  msg.sender of the
\* nested call is the token contract, which is neither a survey's creator nor
\* a manager, so a nested cancel stops at the caller test; the nested
\* envelopes are pay-rewards envelopes, which have no caller test.
Callbacks ==
    {WithProof([Blank EXCEPT !.msgId = PAY_REWARDS_MSG_ID, !.caller = RewardToken,
                             !.ids = b.ids, !.parts = b.parts],
               k, [tte |-> MaxTime, mode |-> "mgr", failAt |-> 0]) :
        b \in {x \in Batches : Len(x.ids) = 1}, k \in Tokens}

\* The outcome of a transfer whose token contract made the nested call with
\* result r: a revert of the nested call makes the transfer revert.
Nested(r) == IF r.err # "none" THEN Revert(r.w, "TransferFailed") ELSE Ok(r.w)

\* IERC20(token).transfer(to, amount) when the token contract calls back
\* inside transfer number at; every other transfer is an ordinary one.
TransferWithCallback(w, x, failAt, t, cb, at) ==
    IF Len(w.xfers) + 1 = failAt \/ Len(w.xfers) + 1 # at THEN DoTransfer(w, x, failAt)
    ELSE Nested(Run(DoTransfer(w, x, failAt).w, cb, t))

handleCancelSurvey_Reentered(w, e, t, cb, at) ==
    LET sid == e.surveyId
        message == cancelProof(w.proofTokens, e.token, e.tte, sid)
        pa == preAuthValidations(w, message, e.token, e.tte, e.sig, t)
        w1 == pa.w
        returnAmount == getSurveyAmountToFund(w1, sid) - getSurveysRewardsAmountPayded(w1, sid)
        tr == TransferWithCallback(w1, Transfer("refund", sid, w1.surveys[sid].rewardToken,
                                                w1.surveys[sid].surveyCreator, returnAmount),
                                   e.failAt, t, cb, at)
        w2 == [tr.w EXCEPT !.surveys[sid].isCanceled = TRUE]
    IN  IF ~SurveyExists(w, sid) THEN Revert(w, "SurveyDoesNotExist")
        ELSE IF AlreadyCanceled(w, sid) THEN Revert(w, "SurveyAlreadyCanceled")
        ELSE IF NotCreatorNorManager(w, sid, e.caller) THEN Revert(w, "OnlyCreatorOrManager")
        ELSE IF NothingToRefund(w, sid) THEN Revert(w, "AllParticipantsRewarded")
        ELSE IF pa.err # "none" THEN Revert(w, pa.err)
        ELSE IF ~IsManager(w1, pa.signer) THEN Revert(w1, "InvalidSigner")
        ELSE IF tr.err # "none" THEN tr
        ELSE Ok(Emit(w2, Event("SurveyCanceled", sid, ZeroAddress, 0)))

PayItem_Reentered(w, e, j, t, cb, at) ==
    LET sid == e.ids[j]
        p == e.parts[j]
        tr == TransferWithCallback(w, Transfer("reward", sid, w.surveys[sid].rewardToken, p,
                                               w.surveys[sid].rewardAmount),
                                   e.failAt, t, cb, at)
        w1 == [tr.w EXCEPT !.surveys[sid].participantsRewarded = @ + 1,
                           !.surveysUsersRewarded[sid][p] = TRUE]
        w2 == Emit(w1, Event("RewardPaid", sid, p, w1.surveys[sid].rewardAmount))
    IN  IF PayToCanceled(w, sid) THEN Revert(w, "SurveyAlreadyCanceled")
        ELSE IF LimitReached(w, sid) THEN Revert(w, "AllParticipantsRewarded")
        ELSE IF AlreadyRewarded(w, sid, p) THEN Revert(w, "UserAlreadyRewarded")
        ELSE IF tr.err # "none" THEN tr
        ELSE IF JustFinished(w2, sid)
        THEN Ok(Emit(w2, Event("SurveyFinished", sid, ZeroAddress, 0)))
        ELSE Ok(w2)

RECURSIVE PayLoop_Reentered(_, _, _, _, _, _)
PayLoop_Reentered(w, e, j, t, cb, at) ==
    IF j > Len(e.parts) THEN Ok(w)
    ELSE LET r == PayItem_Reentered(w, e, j, t, cb, at)
         IN  IF r.err # "none" THEN r ELSE PayLoop_Reentered(r.w, e, j + 1, t, cb, at)

handleRewardPayment_Reentered(w, e, t, cb, at) ==
    LET message == rewardProof(w.proofTokens, e.token, e.tte, e.ids, e.parts)
        pa == preAuthValidations(w, message, e.token, e.tte, e.sig, t)
        w1 == pa.w
    IN  IF LengthMismatch(e.ids, e.parts) THEN Revert(w, "ArrayLengthMismatch")
        ELSE IF pa.err # "none" THEN Revert(w, pa.err)
        ELSE IF ~IsManager(w1, pa.signer) THEN Revert(w1, "InvalidSigner")
        ELSE PayLoop_Reentered(w1, e, 1, t, cb, at)

execute_Reentered(w, e, t, cb, at) ==
    IF ~TrustedChain(e.sourceChain) THEN Revert(w, "WrongSource")
    ELSE IF ~TrustedSender(e.sourceAddress) THEN Revert(w, "WrongSender")
    ELSE IF e.msgId = CANCEL_SURVEY_MSG_ID
    THEN Completed(handleCancelSurvey_Reentered(w, e, t, cb, at), e)
    ELSE IF e.msgId = PAY_REWARDS_MSG_ID
    THEN Completed(handleRewardPayment_Reentered(w, e, t, cb, at), e)
    ELSE Revert(w, "WrongMsgId")

\* The outer envelopes of a re-entered delivery: cancel and pay-rewards
\* envelopes with a good proof.
ReenteredEnvelopes ==
    {WithProof([Blank EXCEPT !.msgId = CANCEL_SURVEY_MSG_ID, !.caller = c, !.surveyId = s],
               k, [tte |-> MaxTime, mode |-> "mgr", failAt |-> 0]) :
        c \in Callers, s \in SurveyIds, k \in Tokens}
    \cup
    {WithProof([Blank EXCEPT !.msgId = PAY_REWARDS_MSG_ID, !.ids = b.ids, !.parts = b.parts],
               k, [tte |-> MaxTime, mode |-> "mgr", failAt |-> 0]) :
        b \in Batches, k \in Tokens}

\* The gateway delivers e, and the token contract calls back with cb, which
\* carries the next unused token, inside transfer number at.
DeliverReentered(e, cb, at) ==
    Apply("execute", e, execute_Reentered(World, e, now, cb, at))

ReentrantDelivery ==
    /\ Idle
    /\ \E e \in ReenteredEnvelopes : \E cb \in Callbacks : \E at \in 1..MaxBatch :
          TokenChoice(e.token) /\ cb.token = e.token + 1 /\ DeliverReentered(e, cb, at)

ReentrantNext ==
    \/ GatewayDelivery
    \/ OwnerSetsManager
    \/ Acknowledge
    \/ ReentrantDelivery

ReentrantSpec == Init /\ [][ReentrantNext]_vars

\* C28: envelope processing never interleaves: even when the token transfer
\* of a cancel or a pay-rewards delivery calls back into the contract with
\* another approved envelope, no survey is refunded more than once, no
\* (survey, participant) pair is paid more than once, and participantsRewarded
\* never exceeds participantsLimit.
C28_ReentryHasNoEffect ==
    /\ \A s \in SurveyIds : refunds[s] <= 1
    /\ \A i \in Items : rewardsPaid[i] <= 1
    /\ \A s \in SurveyIds : surveys[s].participantsRewarded <= surveys[s].participantsLimit

\* The number of participants recorded as rewarded for survey s.
RewardedMembers(s) == Cardinality({p \in Participants : surveysUsersRewarded[s][p]})

\* The items of envelope e that name survey s.
ItemsFor(e, s) == {j \in DOMAIN e.ids : e.ids[j] = s}

\* C30: for every survey, participantsRewarded equals the number of
\* participants whose surveysUsersRewarded entry is true; the counter and the
\* entries change only in a successful pay-rewards delivery, where every item
\* adds one to its survey's counter and sets the entry of its participant,
\* which was false, to true.
C30_CounterMatchesMembership ==
    [][\A s \in SurveyIds :
          /\ surveys[s].participantsRewarded = RewardedMembers(s)
          /\ surveys'[s].participantsRewarded =
                 Cardinality({p \in Participants : surveysUsersRewarded'[s][p]})
          /\ (\/ surveys'[s].participantsRewarded # surveys[s].participantsRewarded
              \/ surveysUsersRewarded'[s] # surveysUsersRewarded[s])
             => /\ last'.entry = "execute"
                /\ last'.env.msgId = PAY_REWARDS_MSG_ID
                /\ last'.err = "none"
                /\ surveys'[s].participantsRewarded
                       = surveys[s].participantsRewarded
                         + Cardinality(ItemsFor(last'.env, s))
                /\ \A j \in ItemsFor(last'.env, s) :
                      /\ ~surveysUsersRewarded[s][last'.env.parts[j]]
                      /\ surveysUsersRewarded'[s][last'.env.parts[j]]
                /\ \A p \in Participants :
                      surveysUsersRewarded'[s][p] # surveysUsersRewarded[s][p]
                      => \E j \in ItemsFor(last'.env, s) : last'.env.parts[j] = p]_vars

\* A delivery has paid two participants of one survey: the counter is 2 and
\* both entries are set.
C30_Witness ==
    /\ last.entry = "execute"
    /\ last.env.msgId = PAY_REWARDS_MSG_ID
    /\ last.err = "none"
    /\ Len(last.env.ids) = 2
    /\ \E s \in SurveyIds :
          /\ surveys[s].participantsRewarded = 2
          /\ \A p \in Participants : surveysUsersRewarded[s][p]
          /\ Cardinality(ItemsFor(last.env, s)) = 2

\* --------------------------------------------- routes and account kits
\* The answers of the chain hub for a connection: its transfer channel and
\* the counterparty's channel id ("" when the registry has none).
Connections ==
    {[channelId |-> ch, counterPartyChannelId |-> cp] :
        ch \in ChannelIds, cp \in {"", "channel-7"}}

NoConnection == [channelId |-> "", counterPartyChannelId |-> ""]

\* makeRemoteChannel up to the test of the staking denom: the flow fails when
\* the remote chain's config names no staking token.
GetChainInfo(c) ==
    /\ remoteChannel[c].status = "pending"
    /\ remoteChannel[c].pc = "getChainInfo"
    /\ \E d \in Denoms :
          remoteChannel' =
              [remoteChannel EXCEPT ![c] =
                  IF d = "" THEN [@ EXCEPT !.status = "rejected", !.pc = "done"]
                  ELSE [@ EXCEPT !.pc = "getConnectionInfo", !.remoteDenom = d]]
    /\ UNCHANGED <<incarnation, lca, accountKits>>
    /\ UNCHANGED <<quizzler, kit>>

\* makeRemoteChannel from chainHub.getConnectionInfo to its return: the flow
\* fails when the hub knows no connection or the connection has no
\* counterparty channel, and otherwise fulfils its promise with the route.
GetConnectionInfo(c) ==
    /\ remoteChannel[c].status = "pending"
    /\ remoteChannel[c].pc = "getConnectionInfo"
    /\ \E conn \in Connections \cup {NoConnection} :
          remoteChannel' =
              [remoteChannel EXCEPT ![c] =
                  IF conn = NoConnection \/ conn.counterPartyChannelId = ""
                  THEN [@ EXCEPT !.status = "rejected", !.pc = "done"]
                  ELSE [@ EXCEPT !.status = "fulfilled", !.pc = "done",
                                 !.value = Route(conn.channelId, @.remoteDenom)]]
    /\ UNCHANGED <<incarnation, lca, accountKits>>
    /\ UNCHANGED <<quizzler, kit>>

\* The contract function runs again (an upgrade of the contract): the three
\* zone.makeOnce calls are made again on the same zone.
Restart ==
    /\ incarnation < MaxUpgrades
    /\ incarnation' = incarnation + 1
    /\ remoteChannel' =
           [c \in Chains |-> makeOnce(remoteChannel[c], MakeChannel(remoteChannel[c]))]
    /\ UNCHANGED <<lca, accountKits>>
    /\ UNCHANGED <<quizzler, kit>>

\* An offer made with the invitation of publicFacet.createAndMonitorLCA
\* starts the flow; invocations are numbered in the order they start.
Invoke(i) ==
    /\ lca[i].pc = "none"
    /\ \A j \in Flows : j < i => lca[j].pc # "none"
    /\ lca' = [lca EXCEPT ![i].pc = "makeAccount"]
    /\ UNCHANGED <<remoteChannel, incarnation, accountKits>>
    /\ UNCHANGED <<quizzler, kit>>

\* createAndMonitorLCA from its start to the vbank asset query: the local
\* account is made, or one of the calls throws.
MakeAccount(i) ==
    /\ lca[i].pc = "makeAccount"
    /\ \E made \in BOOLEAN :
          lca' = [lca EXCEPT ![i].pc = IF made THEN "awaitAxelar" ELSE "failed"]
    /\ UNCHANGED <<remoteChannel, incarnation, accountKits>>
    /\ UNCHANGED <<quizzler, kit>>

\* The three awaits, in the order of the code.
AwaitPc(c) ==
    IF c = "Axelar" THEN "awaitAxelar"
    ELSE IF c = "Osmosis" THEN "awaitOsmosis" ELSE "awaitDydx"

AfterAwait(c) ==
    IF c = "Axelar" THEN "awaitOsmosis"
    ELSE IF c = "Osmosis" THEN "awaitDydx" ELSE "makeAccountKit"

\* The local constant an await assigns.
Awaited(f, c, route) ==
    IF c = "Axelar" THEN [f EXCEPT !.axelar = route, !.pc = AfterAwait(c)]
    ELSE IF c = "Osmosis" THEN [f EXCEPT !.osmosis = route, !.pc = AfterAwait(c)]
    ELSE [f EXCEPT !.dydx = route, !.pc = AfterAwait(c)]

\* await <chain>RemoteChannel: continues with the route once the promise is
\* fulfilled, throws once it is rejected, and waits while it is pending.
Await(i, c) ==
    /\ lca[i].pc = AwaitPc(c)
    /\ remoteChannel[c].status \in {"fulfilled", "rejected"}
    /\ lca' = [lca EXCEPT ![i] =
                  IF remoteChannel[c].status = "fulfilled"
                  THEN Awaited(@, c, remoteChannel[c].value)
                  ELSE [@ EXCEPT !.pc = "failed"]]
    /\ UNCHANGED <<remoteChannel, incarnation, accountKits>>
    /\ UNCHANGED <<quizzler, kit>>

\* makeAccountKit({...}): the kit is made with the three awaited routes in its
\* state, or the state check of the kit's init function (mustMatch) throws.
MakeAccountKit(i) ==
    /\ lca[i].pc = "makeAccountKit"
    /\ \E accepted \in BOOLEAN :
          IF accepted
          THEN /\ accountKits' =
                      accountKits \cup {[flow |-> i,
                                         axelarRemoteChannel |-> lca[i].axelar,
                                         osmosisRemoteChannel |-> lca[i].osmosis,
                                         dydxRemoteChannel |-> lca[i].dydx]}
               /\ lca' = [lca EXCEPT ![i].pc = "monitorTransfers"]
          ELSE /\ accountKits' = accountKits
               /\ lca' = [lca EXCEPT ![i].pc = "failed"]
    /\ UNCHANGED <<remoteChannel, incarnation>>
    /\ UNCHANGED <<quizzler, kit>>

\* localAccount.monitorTransfers(accountKit.tap), seat.exit() and the return.
MonitorTransfers(i) ==
    /\ lca[i].pc = "monitorTransfers"
    /\ lca' = [lca EXCEPT ![i].pc = "done"]
    /\ UNCHANGED <<remoteChannel, incarnation, accountKits>>
    /\ UNCHANGED <<quizzler, kit>>

RemoteChannelFlow == \E c \in Chains : GetChainInfo(c) \/ GetConnectionInfo(c)

Offer == \E i \in Flows : Invoke(i)

LcaFlow ==
    \E i \in Flows :
        \/ MakeAccount(i)
        \/ \E c \in Chains : Await(i, c)
        \/ MakeAccountKit(i)
        \/ MonitorTransfers(i)

RouteNext ==
    \/ RemoteChannelFlow
    \/ Restart
    \/ Offer
    \/ LcaFlow

RouteSpec == Init /\ [][RouteNext]_vars

\* The route an account kit holds for chain c.
KitRoute(k, c) ==
    IF c = "Axelar" THEN k.axelarRemoteChannel
    ELSE IF c = "Osmosis" THEN k.osmosisRemoteChannel ELSE k.dydxRemoteChannel

\* C29: the route of each destination chain is computed at most once and
\* never changes once it is settled; an account kit is made only when all
\* three routes are resolved, every kit holds exactly the resolved routes,
\* and while some route is unresolved or has failed there is no kit.
C29_RoutesComputedOnceAndShared ==
    [][/\ \A c \in Chains :
             /\ remoteChannel[c].made <= 1
             /\ remoteChannel'[c].made <= 1
             /\ remoteChannel[c].status \in {"fulfilled", "rejected"}
                => /\ remoteChannel'[c].status = remoteChannel[c].status
                   /\ remoteChannel'[c].value = remoteChannel[c].value
       /\ accountKits' # accountKits
          => \A c \in Chains : remoteChannel[c].status = "fulfilled"
       /\ \A k \in accountKits' : \A c \in Chains :
             /\ remoteChannel'[c].status = "fulfilled"
             /\ KitRoute(k, c) = remoteChannel'[c].value
       /\ (\E c \in Chains : remoteChannel'[c].status # "fulfilled")
          => accountKits' = {}]_vars

\* Two invocations have each made an account kit, across a restart of the
\* contract, and both kits hold the same three routes.
C29_Witness ==
    /\ incarnation = 1
    /\ Cardinality(accountKits) = 2
    /\ \A k \in accountKits : \A c \in Chains : KitRoute(k, c) = remoteChannel[c].value
    /\ \A i \in Flows : lca[i].pc = "done"

\* C31: a token becomes consumed only as the effect of an envelope that
\* passed the source-chain and sender tests and completed successfully: in
\* every step that sets proofTokens[k], the transaction is a gateway delivery
\* from the trusted chain and sender that returned without error.
C31_TokensConsumedOnlyByEnvelopes ==
    [][\A k \in Tokens :
          (~proofTokens[k] /\ proofTokens'[k])
          => /\ last'.entry \in {"execute", "executeWithToken"}
             /\ last'.env.sourceChain = AGORIC_CHAIN
             /\ last'.env.sourceAddress = SENDER
             /\ last'.err = "none"]_vars

\* C32: for every survey the amount sent out as rewards and refund never
\* exceeds participantsLimit*rewardAmount, and equals it once the survey is
\* canceled.  The last conjunct runs the two handlers on a funded record
\* (limit 2, reward 5): one reward of 5, then a refund of 5, 10 in all.
C32_PaidOutWithinFunding ==
    [][/\ \A s \in SurveyIds :
             /\ paidOut'[s] <= surveys'[s].participantsLimit * surveys'[s].rewardAmount
             /\ surveys'[s].isCanceled
                => paidOut'[s] = surveys'[s].participantsLimit * surveys'[s].rewardAmount
       /\ (last'.entry = "execute" /\ last'.env.msgId = CANCEL_SURVEY_MSG_ID
           /\ last'.err = "none") =>
             LET w == [World EXCEPT
                          !.managers["mgr"] = TRUE,
                          !.proofTokens = [k \in Tokens |-> FALSE],
                          !.surveysUsersRewarded["S2"] = [p \in Participants |-> FALSE],
                          !.surveys["S2"] =
                              [surveyCreator |-> "relay", participantsLimit |-> 2,
                               rewardAmount |-> 5, participantsRewarded |-> 0,
                               surveyHash |-> "h1", rewardToken |-> RewardToken,
                               isCanceled |-> FALSE]]
                 pay == Signed([Blank EXCEPT !.msgId = PAY_REWARDS_MSG_ID, !.token = 1,
                                             !.ids = <<"S2">>, !.parts = <<"A">>], "mgr")
                 cancel == Signed([Blank EXCEPT !.surveyId = "S2", !.caller = "mgr",
                                                !.token = 2], "mgr")
                 paid == handleRewardPayment(w, pay, now)
                 canceled == handleCancelSurvey(paid.w, cancel, now)
             IN  /\ paid.err = "none"
                 /\ AmountOut(paid.w.xfers, "S2") = 5
                 /\ canceled.err = "none"
                 /\ AmountOut(canceled.w.xfers, "S2") = 10]_vars

\* A survey with room for two was canceled after one participant was paid:
\* one reward and one refund went out, and their sum is its whole funding.
C32_Witness ==
    \E s \in SurveyIds :
        /\ surveys[s].isCanceled
        /\ surveys[s].participantsLimit = 2
        /\ surveys[s].participantsRewarded = 1
        /\ refunds[s] = 1
        /\ \E p \in Participants : rewardsPaid[<<s, p>>] = 1
        /\ paidOut[s] = surveys[s].participantsLimit * surveys[s].rewardAmount

\* Some item of pay-rewards envelope e names a survey that has no record.
NamesUnknownSurvey(e) ==
    \E j \in DOMAIN e.ids : surveys[e.ids[j]].surveyCreator = ZeroAddress

\* C33: a pay-rewards envelope with an item that names a survey never
\* created fails: it makes no transfer, records no membership, changes no
\* counter and creates no record; when the item is the first of a batch that
\* gets as far as the loop, the error is AllParticipantsRewarded (the zero
\* record has participantsRewarded = 0 >= participantsLimit = 0).
C33_UnknownSurveyItemFails ==
    [][(last'.entry = "execute" /\ last'.env.msgId = PAY_REWARDS_MSG_ID
        /\ NamesUnknownSurvey(last'.env)) =>
          /\ last'.err # "none"
          /\ last'.xfers = <<>>
          /\ surveys' = surveys
          /\ surveysUsersRewarded' = surveysUsersRewarded
          /\ rewardsPaid' = rewardsPaid
          /\ \A j \in DOMAIN last'.env.ids :
                surveys[last'.env.ids[j]].surveyCreator = ZeroAddress
                => surveys'[last'.env.ids[j]] = ZeroSurvey
          /\ (/\ TrustedOrigin(last'.env)
              /\ Len(last'.env.ids) = Len(last'.env.parts)
              /\ ~proofTokens[last'.env.token]
              /\ now <= last'.env.tte
              /\ last'.env.sig.by # ZeroAddress
              /\ managers[getSigner(ProperDigest(last'.env), last'.env.sig)]
              /\ Len(last'.env.ids) >= 1
              /\ surveys[last'.env.ids[1]].surveyCreator = ZeroAddress)
             => last'.err = "AllParticipantsRewarded"]_vars

\* A batch with a manager's proof whose first item names a survey never
\* created and whose second item was payable has been refused with
\* AllParticipantsRewarded; nothing was paid and the token is still unused.
C33_Witness ==
    /\ last.entry = "execute" /\ last.env.msgId = PAY_REWARDS_MSG_ID
    /\ last.err = "AllParticipantsRewarded"
    /\ Len(last.env.ids) = 2 /\ Len(last.env.parts) = 2
    /\ surveys[last.env.ids[1]] = ZeroSurvey
    /\ surveys[last.env.ids[2]].surveyCreator # ZeroAddress
    /\ surveys[last.env.ids[2]].participantsRewarded
          < surveys[last.env.ids[2]].participantsLimit
    /\ ~surveys[last.env.ids[2]].isCanceled
    /\ ~surveysUsersRewarded[last.env.ids[2]][last.env.parts[2]]
    /\ WellSigned(last.env) /\ managers["mgr"]
    /\ ~proofTokens[last.env.token]

\* ------------------------------------------------- offers to an account kit
\* The messages of a sendTransactions offer: to an EVM chain, to a Cosmos
\* chain, and one whose destinationChain is missing.
MessageKinds ==
    {[chainType |-> "evm", destinationChain |-> "Ethereum"],
     [chainType |-> "cosmos", destinationChain |-> "Osmosis"],
     [chainType |-> "evm", destinationChain |-> "null"]}

\* An offer is made with the invitation of makeTransactionInvitation(method,
\* args): Zoe escrows the give on the seat and calls the handler.  The handler
\* ends with outcome "returned" when it returns a value and with outcome
\* "thrown" when it throws (the offer's result is then a rejection).
MakeOffer(method, give, messages) ==
    /\ offer.pc \in {"none", "done"}
    /\ localBalance + give <= MaxBalance
    /\ method # "sendTransactions" => messages = <<>>
    /\ offer' = [NoOffer EXCEPT !.pc = "handler", !.method = method, !.give = give,
                                !.messages = messages]
    /\ UNCHANGED localBalance
    /\ UNCHANGED <<quizzler, routing>>

\* holder.fundLCA(seat, give): zoeTools.localTransfer moves the give from the
\* seat to the local account, or fails.
fundLCA ==
    /\ offer.pc = "handler"
    /\ offer.method \in {"sendTransactions", "fundLCA"}
    /\ \E moved \in BOOLEAN :
          IF moved /\ offer.exits = 0
          THEN /\ localBalance' = localBalance + offer.give
               /\ offer' = [offer EXCEPT !.deposited = offer.give,
                                         !.pc = IF offer.method = "sendTransactions"
                                                THEN "sendTransactions" ELSE "exit"]
          ELSE /\ localBalance' = localBalance
               /\ offer' = [offer EXCEPT !.outcome = "thrown", !.pc = "done"]
    /\ UNCHANGED <<quizzler, routing>>

\* One iteration of the loop of holder.sendTransactions, for message
\* offer.next.  Every EVM message transfers the whole amount of the give.
\* COSMOS_CHAINS is a plain object, so COSMOS_CHAINS.includes(chainType)
\* throws a TypeError for a message that is not for an EVM chain.
sendTransactions ==
    /\ offer.pc = "sendTransactions"
    /\ offer.next <= Len(offer.messages)
    /\ LET message == offer.messages[offer.next]
       IN  \E sentOut \in BOOLEAN :
              IF /\ message.destinationChain # "null"
                 /\ offer.give > 0
                 /\ message.chainType = "evm"
                 /\ sentOut
                 /\ localBalance >= offer.give
              THEN /\ localBalance' = localBalance - offer.give
                   /\ offer' = [offer EXCEPT !.sent = @ + offer.give, !.next = @ + 1]
              ELSE /\ localBalance' = localBalance
                   /\ offer' = [offer EXCEPT !.outcome = "thrown", !.pc = "done"]
    /\ UNCHANGED <<quizzler, routing>>

\* The end of holder.sendTransactions: seat.exit() and the return.
sendTransactionsExit ==
    /\ offer.pc = "sendTransactions"
    /\ offer.next > Len(offer.messages)
    /\ offer' = [offer EXCEPT !.exits = @ + 1, !.outcome = "returned", !.pc = "done"]
    /\ UNCHANGED localBalance
    /\ UNCHANGED <<quizzler, routing>>

\* case 'getLocalAddress': the address is read.
getLocalAddress ==
    /\ offer.pc = "handler"
    /\ offer.method = "getLocalAddress"
    /\ offer' = [offer EXCEPT !.pc = "exit"]
    /\ UNCHANGED localBalance
    /\ UNCHANGED <<quizzler, routing>>

\* case 'send': holder.send(args[0], args[1]) sends an amount from the local
\* account, or fails.
send ==
    /\ offer.pc = "handler"
    /\ offer.method = "send"
    /\ \E amount \in 0..MaxGive, sentOut \in BOOLEAN :
          IF sentOut /\ localBalance >= amount
          THEN /\ localBalance' = localBalance - amount
               /\ offer' = [offer EXCEPT !.pc = "exit"]
          ELSE /\ localBalance' = localBalance
               /\ offer' = [offer EXCEPT !.outcome = "thrown", !.pc = "done"]
    /\ UNCHANGED <<quizzler, routing>>

\* The callback of vowTools.when in the cases 'getLocalAddress', 'send' and
\* 'fundLCA': seat.exit() and the return of the result.
exitSeat ==
    /\ offer.pc = "exit"
    /\ offer' = [offer EXCEPT !.exits = @ + 1, !.outcome = "returned", !.pc = "done"]
    /\ UNCHANGED localBalance
    /\ UNCHANGED <<quizzler, routing>>

\* default: return 'Invalid method'.
invalidMethod ==
    /\ offer.pc = "handler"
    /\ offer.method \notin {"sendTransactions", "getLocalAddress", "send", "fundLCA"}
    /\ offer' = [offer EXCEPT !.outcome = "returned", !.pc = "done"]
    /\ UNCHANGED localBalance
    /\ UNCHANGED <<quizzler, routing>>

\* The offers: the four methods the handler knows and one it does not, every
\* give and every list of messages within the bounds, then the handler's steps.
KitNext ==
    \/ \E method \in {"sendTransactions", "getLocalAddress", "send", "fundLCA", "other"},
          give \in 0..MaxGive,
          messages \in UNION {[1..n -> MessageKinds] : n \in 0..MaxMessages} :
            MakeOffer(method, give, messages)
    \/ fundLCA
    \/ sendTransactions
    \/ sendTransactionsExit
    \/ getLocalAddress
    \/ send
    \/ exitSeat
    \/ invalidMethod

KitSpec == Init /\ [][KitNext]_vars

\* C34: in one sendTransactions offer the amounts transferred out of the
\* local account never sum to more than what fundLCA deposited for the offer.
C34_SentWithinDeposit ==
    offer.method = "sendTransactions" => offer.sent <= offer.deposited

\* C35: when the handler has returned normally the seat has been exited
\* exactly once, and for sendTransactions the transfer of every message has
\* been made by then.
C35_ReturnedSeatExitedOnce ==
    offer.outcome = "returned" =>
        /\ offer.exits = 1
        /\ offer.method = "sendTransactions" => offer.next > Len(offer.messages)


====
